---- MODULE Spec2Model ----
(***************************************************************************)
(* A model of the rollout execution core of go-verifiers: the single-turn  *)
(* and multi-turn rollout algorithms (pkg/envs), the environment group     *)
(* router, the parsers and rubrics they score with, and the bounded        *)
(* concurrency batch processor (pkg/utils).                                *)
(*                                                                         *)
(* Text.  A Go string is modelled as a sequence of tokens.  A token is a   *)
(* TLA+ string standing for the characters it spells; the Go string is the *)
(* concatenation of the tokens.  White space, digits, ':' ',' '.' '$' '-'  *)
(* '{' '}' are always single-character tokens; markup tags, the literal    *)
(* messages of the environments and JSON payloads are one token each, and  *)
(* no token spells part of another, so the substring operations of the     *)
(* source (HasPrefix, Contains, Split, the tag regular expression) act on  *)
(* token boundaries.                                                       *)
(*                                                                         *)
(* Numbers.  A float64 is modelled bit for bit: sign, odd mantissa and     *)
(* binary exponent, or a zero, an infinity or NaN; the operations round to *)
(* the nearest float64 as the hardware does, and strconv reads and writes  *)
(* the decimal and hexadecimal notations of the source language.           *)
(***************************************************************************)
EXTENDS Integers, Sequences, FiniteSets, Bags, TLC

VARIABLES
    \* ---- one rollout call (pkg/envs) ----
    req,            \* the caller's call: [target, prompt, answer]
    group,          \* the EnvGroup object: [envs, envNames]
    env,            \* the environment object that runs the rollout
    pc,             \* position of the rollout in its code
    answer,         \* the answer argument of the running Rollout
    workingMessages,\* BaseMultiTurnRollout: workingMessages
    completion,     \* BaseMultiTurnRollout: completion
    state,          \* BaseMultiTurnRollout: state map
    turn,           \* BaseMultiTurnRollout: turn
    hasError,       \* BaseMultiTurnRollout: hasError of the last response
    response,       \* the last text the client returned
    clientCalls,    \* history: the client calls made, [method, err, text] each
    hookCalls,      \* history: number of EnvResponse invocations
    delegated,      \* history: sub-environment rollouts EnvGroup started
    ret,            \* what Rollout returned: [kind, Messages, Response, Score, err]
    \* ---- one BatchProcessor call (pkg/utils) ----
    batch,          \* the call: [method, items, maxConcurrent]
    spawned,        \* number of goroutines the dispatch loop has started
    sem,            \* number of tokens in the semaphore channel
    mu,             \* holder of the progress mutex, 0 when free
    wpc,            \* position of each worker goroutine
    results,        \* the results slice
    produced,       \* history: what the processor returned for each item
    cancelled,      \* ctx.Done() is closed
    completed,      \* ProcessWithProgress: completed
    progressCalls,  \* history: arguments of the progress callback, in order
    returned,       \* the call has returned results
    mapped,         \* what ParallelMap returned: [output, err]
    \* ---- one Retry call (pkg/utils) ----
    retry,          \* the call and its locals: [maxRetries, initialDelay, pc, i,
                    \* delay, result, err, ctxDone, ..., ret]
    \* ---- one call on a rubric (pkg/rubrics), on a parser (pkg/parsers), of
    \* ---- CompareMathAnswers or of FormatPrompt ----
    scoring,        \* [pc, the receiver and the arguments, out]
    \* ---- two Rollout calls and a setter call on one environment (pkg/envs) ----
    shared          \* [kind, env, mu, array, len, setter, th]

rolloutVars == <<req, group, env, pc, answer, workingMessages, completion, state,
                 turn, hasError, response, clientCalls, hookCalls, delegated, ret>>

batchVars == <<batch, spawned, sem, mu, wpc, results, produced, cancelled,
               completed, progressCalls, returned, mapped, retry, scoring, shared>>

vars == <<rolloutVars, batchVars>>

-----------------------------------------------------------------------------
(* Strings as token sequences *)

\* unicode.IsSpace on the tokens of the model
IsSpace(tok) == tok \in {" ", "\n", "\t"}

\* strings.TrimSpace
TrimSpace(s) ==
    LET \* ns: the positions of s that hold no space
        between(ns) ==
            IF ns = {} THEN <<>>
            ELSE SubSeq(s, CHOOSE i \in ns : \A j \in ns : i <= j,
                           CHOOSE i \in ns : \A j \in ns : i >= j)
    IN  between({i \in 1..Len(s) : ~IsSpace(s[i])})

\* a prefix test that never matches
HasNoPrefix(s, p) == FALSE

\* strings.HasPrefix / strings.HasSuffix
HasPrefix(s, p) == Len(p) <= Len(s) /\ SubSeq(s, 1, Len(p)) = p

HasSuffix(s, p) == Len(p) <= Len(s) /\ SubSeq(s, Len(s) - Len(p) + 1, Len(s)) = p

\* strings.Index: the first position where sub occurs in s, 0 when it does not
\* (Go's -1; positions of the model count from 1)
Index(s, sub) ==
    LET first(hits) == IF hits = {} THEN 0 ELSE CHOOSE i \in hits : \A j \in hits : i <= j
    IN  first({i \in 1..(Len(s) - Len(sub) + 1) : SubSeq(s, i, i + Len(sub) - 1) = sub})

\* strings.Contains
Contains(s, sub) == sub = <<>> \/ Index(s, sub) > 0

\* strings.ToLower, token by token
LowerTok(tok) ==
    CASE tok = "DONE" -> "done"
      [] tok = "Are you sure" -> "are you sure"
      [] tok = "ARE YOU SURE" -> "are you sure"
      [] tok = "Error:" -> "error:"
      [] tok = "Result:" -> "result:"
      [] tok = "Yes" -> "yes"
      [] tok = "No" -> "no"
      [] OTHER -> tok

ToLower(s) == [i \in 1..Len(s) |-> LowerTok(s[i])]

-----------------------------------------------------------------------------
(* Parsers (pkg/parsers) *)

\* regexp.Compile of "(?s)<name>\s*(.*?)\s*</name>": a field name that spells an
\* unclosed group does not compile
RegexCompiles(name) == name \notin {"f("}

\* regexp FindStringSubmatch of <alt>\s*(.*?)\s*</alt> in text: the captured
\* group of the leftmost match, as [found, content]
FindStringSubmatch(alt, text) ==
    LET open  == "<" \o alt \o ">"
        close == "</" \o alt \o ">"
        \* i: where the opening tag is; js: where a closing tag follows it
        match(i, js) ==
            IF i = 0 \/ js = {}
            THEN [found |-> FALSE, content |-> <<>>]
            ELSE [found |-> TRUE,
                  content |-> TrimSpace(SubSeq(text, i + 1,
                                               (CHOOSE x \in js : \A y \in js : x <= y) - 1))]
        from(i) == match(i, {j \in 1..Len(text) : j > i /\ text[j] = close})
    IN  from(Index(text, <<open>>))

\* the alternative names of a parser's fields, in the order ParseXML visits them
RECURSIVE Flatten(_)
Flatten(fields) == IF fields = <<>> THEN <<>> ELSE Head(fields) \o Flatten(Tail(fields))

\* XMLParser.ParseXML / SmolaParser.ParseSmola: [err, Fields], Fields a function
\* from the alternative names that matched to their content
ParseXML(p, text) ==
    LET alts == Flatten(p.fields)
        bad  == {k \in 1..Len(alts) : ~RegexCompiles(alts[k])}
        hit  == {k \in 1..Len(alts) : FindStringSubmatch(alts[k], text).found}
    IN  IF bad # {}
        THEN [err |-> <<"failed to compile regex">>, Fields |-> <<>>]
        ELSE [err |-> <<>>,
              Fields |-> [a \in {alts[k] : k \in hit} |->
                             FindStringSubmatch(a, text).content]]

\* Go's map read: the zero value for a key that is absent
Field(m, k) == IF k \in DOMAIN m THEN m[k] ELSE <<>>

\* XMLParser.Parse
XMLParserParse(p, text) ==
    LET parsed == ParseXML(p, text)
    IN  IF parsed.err # <<>> THEN [err |-> parsed.err, value |-> <<>>]
        ELSE [err |-> <<>>, value |-> Field(parsed.Fields, p.answerField)]

\* SmolaParser.Parse: the first non-empty alternative of the last field
SmolaParserParse(p, text) ==
    LET parsed == ParseXML(p, text)
        last   == IF p.fields = <<>> THEN <<>> ELSE p.fields[Len(p.fields)]
        good   == {k \in 1..Len(last) : Field(parsed.Fields, last[k]) # <<>>}
    IN  IF parsed.err # <<>> THEN [err |-> parsed.err, value |-> <<>>]
        ELSE IF good = {} THEN [err |-> <<>>, value |-> <<>>]
        ELSE [err |-> <<>>,
              value |-> parsed.Fields[last[CHOOSE k \in good : \A l \in good : k <= l]]]

\* Parser.Parse, dispatched on the parser the environment holds
ParserParse(p, text) ==
    CASE p.type = "base"  -> [err |-> <<>>, value |-> TrimSpace(text)]
      [] p.type = "xml"   -> XMLParserParse(p, text)
      [] p.type = "smola" -> SmolaParserParse(p, text)

\* The parser objects of the model
NilParser == [type |-> "nil", fields |-> <<>>, answerField |-> ""]
NewBaseParser == [type |-> "base", fields |-> <<>>, answerField |-> ""]
NewXMLParser(fields, answerField) ==
    [type |-> "xml", fields |-> fields,
     answerField |-> IF answerField = "" THEN "answer" ELSE answerField]
NewSmolaParser(fields) == [type |-> "smola", fields |-> fields, answerField |-> ""]

\* The loop of NewXMLParser and of NewSmolaParser over the declarations, each a
\* name (kind "string", names of length one), a list of names (kind "list") or
\* a value of another type (kind "other"): [err, fields], the error being that
\* of the first declaration the loop refuses
NewFields(decls) ==
    LET refusal(k) ==
            IF decls[k].kind = "list" /\ decls[k].names = <<>>
            THEN <<"field array cannot be empty">>
            ELSE IF decls[k].kind \notin {"string", "list"}
            THEN <<"each field must be a string or array of strings">>
            ELSE IF \E j \in 1..(k - 1) : /\ decls[j].names # <<>>
                                          /\ decls[j].names[1] = decls[k].names[1]
            THEN <<"duplicate field name: ", decls[k].names[1]>>
            ELSE <<>>
        refused == {k \in 1..Len(decls) : refusal(k) # <<>>}
    IN  IF refused = {}
        THEN [err |-> <<>>, fields |-> [k \in 1..Len(decls) |-> decls[k].names]]
        ELSE [err |-> refusal(CHOOSE k \in refused : \A l \in refused : k <= l),
              fields |-> <<>>]

\* strings.Join(parts, "\n")
JoinLines(parts) ==
    LET J[k \in 0..Len(parts)] ==
            IF k = 0 THEN <<>>
            ELSE IF k = 1 THEN parts[1]
            ELSE J[k - 1] \o <<"\n">> \o parts[k]
    IN  J[Len(parts)]

\* a Format that writes each value under the name it was supplied with
FormatSuppliedName(p, values) ==
    LET supplied(k) == {a \in 1..Len(p.fields[k]) : p.fields[k][a] \in DOMAIN values}
        name(k) == p.fields[k][CHOOSE a \in supplied(k) : \A b \in supplied(k) : a <= b]
        part(k) == <<"<" \o name(k) \o ">", "\n">> \o values[name(k)]
                   \o <<"\n", "</" \o name(k) \o ">">>
    IN  IF \E k \in 1..Len(p.fields) : supplied(k) = {}
        THEN [err |-> <<"missing value for field">>, text |-> <<>>]
        ELSE [err |-> <<>>, text |-> JoinLines([k \in 1..Len(p.fields) |-> part(k)])]

\* XMLParser.Format: [err, text]; values is the map the caller supplies
Format(p, values) ==
    LET supplied(k) == {a \in 1..Len(p.fields[k]) : p.fields[k][a] \in DOMAIN values}
        \* the canonical name heads the alternatives, so the first supplied
        \* alternative is the canonical name whenever that one is supplied
        name(k) == p.fields[k][CHOOSE a \in supplied(k) : \A b \in supplied(k) : a <= b]
        part(k) == <<"<" \o p.fields[k][1] \o ">", "\n">> \o values[name(k)]
                   \o <<"\n", "</" \o p.fields[k][1] \o ">">>
    IN  IF \E k \in 1..Len(p.fields) : supplied(k) = {}
        THEN [err |-> <<"missing value for field">>, text |-> <<>>]
        ELSE [err |-> <<>>, text |-> JoinLines([k \in 1..Len(p.fields) |-> part(k)])]

-----------------------------------------------------------------------------
(* float64.  A value is [kind, neg, mant, exp]: kind "finite" is the number
   (-1)^neg * mant * 2^exp, where mant is a natural number that is odd, or
   <<>> with exp 0 for a zero; kind "inf" is an infinity of the sign neg and
   kind "nan" is a NaN.  A natural number of any size (an integer of the
   model has 32 bits) is the sequence of its base-16384 digits, lowest
   first, without leading zero digits; <<>> is 0.  Every operation rounds
   its exact result to the nearest float64, a tie to the even one
   (IEEE 754). *)

\* a zero ("finite"), an infinity ("inf") or the NaN ("nan")
Special(kind, neg) == [kind |-> kind, neg |-> neg, mant |-> <<>>, exp |-> 0]

\* Float64(op, x) is the operation op on the operands x, which are evaluated
\* before the operation, as the operands of a call are.
RECURSIVE Float64(_, _)
Float64(op, x) ==
    LET \* the sum of the natural numbers f[i]
        total(f) == BagCardinality([i \in {j \in DOMAIN f : f[j] > 0} |-> f[i]])
        \* a digit sequence without its leading zero digits
        trim(a) ==
            SubSeq(a, 1, CHOOSE i \in 0..Len(a) :
                             /\ i = 0 \/ a[i] # 0
                             /\ \A j \in (i + 1)..Len(a) : a[j] = 0)
        \* a + b: the carry into a digit comes from the nearest lower digit
        \* sum that is not 16383
        add(a, b) ==
            LET n  == IF Len(a) < Len(b) THEN Len(b) ELSE Len(a)
                xs == [i \in 1..(n + 1) |-> (IF i <= Len(a) THEN a[i] ELSE 0)
                                            + (IF i <= Len(b) THEN b[i] ELSE 0)]
                carry(i) == \E t \in 1..(i - 1) :
                                /\ xs[i - t] > 16383
                                /\ \A u \in 1..(t - 1) : xs[i - u] = 16383
            IN  trim([i \in 1..(n + 1) |-> (xs[i] + (IF carry(i) THEN 1 ELSE 0)) % 16384])
        \* a - b for a >= b
        sub(a, b) ==
            LET xs == [i \in 1..Len(a) |-> a[i] - (IF i <= Len(b) THEN b[i] ELSE 0)]
                borrow(i) == \E t \in 1..(i - 1) :
                                 /\ xs[i - t] < 0
                                 /\ \A u \in 1..(t - 1) : xs[i - u] = 0
            IN  trim([i \in 1..Len(a) |-> (xs[i] - (IF borrow(i) THEN 1 ELSE 0)) % 16384])
        \* -1, 0 or 1 as a < b, a = b or a > b
        cmp(a, b) ==
            IF Len(a) # Len(b) THEN (IF Len(a) < Len(b) THEN -1 ELSE 1)
            ELSE LET differ == {i \in 1..Len(a) : a[i] # b[i]}
                     top == CHOOSE i \in differ : \A j \in differ : j <= i
                 IN  IF differ = {} THEN 0 ELSE IF a[top] < b[top] THEN -1 ELSE 1
        \* a * 2^n
        shl(a, n) ==
            LET w == n \div 14
                r == n % 14
                at(j) == IF j >= 1 /\ j <= Len(a) THEN a[j] ELSE 0
            IN  trim([i \in 1..(Len(a) + w + 1) |->
                         (at(i - w) % 2^(14 - r)) * 2^r + (at(i - w - 1) \div 2^(14 - r))])
        \* a \div 2^n
        shr(a, n) ==
            LET w == n \div 14
                r == n % 14
                at(j) == IF j <= Len(a) THEN a[j] ELSE 0
            IN  IF Len(a) <= w THEN <<>>
                ELSE trim([i \in 1..(Len(a) - w) |->
                              (at(i + w) \div 2^r) + (at(i + w + 1) % 2^r) * 2^(14 - r)])
        \* the number of binary digits of a
        bitLen(a) ==
            IF a = <<>> THEN 0
            ELSE 14 * (Len(a) - 1)
                 + (CHOOSE k \in 1..14 : 2^(k - 1) <= a[Len(a)] /\ a[Len(a)] < 2^k)
        \* a * b: the digit products of a place are added up in two halves,
        \* the low and the high seven binary digits
        mul(a, b) ==
            LET with(k) == (IF k < Len(b) THEN 1 ELSE k - Len(b) + 1)
                           ..(IF k < Len(a) THEN k ELSE Len(a))
                col == [k \in 1..(Len(a) + Len(b)) |->
                           total([i \in with(k) |-> (a[i] * b[k + 1 - i]) % 16384])
                           + total([i \in with(k - 1) |-> (a[i] * b[k - i]) \div 16384])]
            IN  add([k \in 1..(Len(a) + Len(b)) |-> col[k] % 16384] \o <<0>>,
                    <<0>> \o [k \in 1..(Len(a) + Len(b)) |-> col[k] \div 16384])
        \* the long division of the digits lo..hi of n by d, whose highest
        \* digit is 8192 or more, rem (less than d) being what the digits
        \* above hi have left: <<the digits lo..hi of the quotient, the
        \* remainder>>
        divRun(n, d, lo, hi, rem) ==
            IF rem = <<>> /\ \A i \in lo..hi : n[i] = 0
            THEN <<[i \in 1..(hi - lo + 1) |-> 0], rem>>
            ELSE IF lo = hi
            THEN Float64("BigDivDigit", <<d, trim(<<n[lo]>> \o rem)>>)
            ELSE LET high == Float64("BigDivRun", <<n, d, (lo + hi) \div 2 + 1, hi, rem>>)
                     low  == Float64("BigDivRun", <<n, d, lo, (lo + hi) \div 2, high[2]>>)
                 IN  <<low[1] \o high[1], low[2]>>
        \* one digit of the quotient: cur \div d, which is the estimate from
        \* the two highest digits of cur or up to 2 below it, and cur % d
        divDigit(d, cur) ==
            LET m   == Len(d)
                top == (IF Len(cur) > m THEN cur[m + 1] * 16384 ELSE 0)
                       + (IF Len(cur) >= m THEN cur[m] ELSE 0)
                est == IF top \div d[m] > 16383 THEN 16383 ELSE top \div d[m]
                fits(c) == c <= 0 \/ cmp(Float64("BigMul", <<d, <<c>>>>), cur) <= 0
                q   == est - (CHOOSE j \in 0..2 : fits(est - j) /\ \A i \in 0..(j - 1) : ~fits(est - i))
            IN  <<<<q>>, IF q <= 0 THEN cur ELSE sub(cur, Float64("BigMul", <<d, <<q>>>>))>>
        \* <<n \div d, n % d>> for d > 0
        divMod(n, d) ==
            LET s  == 14 - (Float64("BigBitLen", <<d>>) - 14 * (Len(d) - 1))
                nn == Float64("BigShl", <<n, s>>)
                r  == Float64("BigDivRun", <<nn, Float64("BigShl", <<d, s>>), 1, Len(nn), <<>>>>)
            IN  IF nn = <<>> THEN <<nn, nn>> ELSE <<trim(r[1]), Float64("BigShr", <<r[2], s>>)>>
        \* 10^k
        pow10(k) ==
            LET half == Float64("BigPow10", <<k \div 2>>)
            IN  IF k < 10 THEN trim(<<10^k % 16384, (10^k \div 16384) % 16384,
                                      10^k \div 268435456>>)
                ELSE Float64("BigMul", <<Float64("BigMul", <<half, half>>),
                                         IF k % 2 = 0 THEN <<1>> ELSE <<10>>>>)
        zero(v) == v.kind = "finite" /\ v.mant = <<>>
        top(v) == Float64("BigBitLen", <<v.mant>>) + v.exp
        \* The float64 nearest to (-1)^neg * (n + f) * 2^e, where 0 <= f < 1
        \* and f > 0 exactly if sticky: 53 binary digits are kept, and fewer
        \* below 2^-1022
        round(neg, n, e, sticky) ==
            LET drop == IF Float64("BigBitLen", <<n>>) - 53 > -1074 - e THEN Float64("BigBitLen", <<n>>) - 53 ELSE -1074 - e
            IN  IF drop <= 0 THEN Float64("FPack", <<neg, n, e>>)
                ELSE Float64("FTie", <<neg, n, e + drop, sticky, drop, Float64("BigShr", <<n, drop - 1>>)>>)
        \* n without its lowest drop binary digits, q2 being n without one
        \* digit less: up if the rest is above a half, or a half and the
        \* kept digits odd
        tie(neg, n, e, sticky, drop, q2) ==
            LET q  == Float64("BigShr", <<q2, 1>>)
                up == /\ q2 # <<>> /\ q2[1] % 2 = 1
                      /\ \/ sticky
                         \/ Float64("BigShl", <<q2, drop - 1>>) # n
                         \/ q # <<>> /\ q[1] % 2 = 1
            IN  Float64("FPack", <<neg, IF up THEN Float64("BigAdd", <<q, <<1>>>>) ELSE q, e>>)
        \* the value (-1)^neg * kept * 2^e of at most 53 binary digits; what
        \* is too large is an infinity
        pack(neg, kept, e) ==
            LET low == CHOOSE i \in 1..Len(kept) :
                           kept[i] # 0 /\ \A j \in 1..(i - 1) : kept[j] = 0
                tz  == 14 * (low - 1) + (CHOOSE k \in 0..13 : kept[low] % 2^(k + 1) = 2^k)
            IN  IF kept = <<>> THEN Special("finite", neg)
                ELSE IF Float64("BigBitLen", <<kept>>) + e > 1024 THEN Special("inf", neg)
                ELSE [kind |-> "finite", neg |-> neg, mant |-> Float64("BigShr", <<kept, tz>>), exp |-> e + tz]
        \* float64(k) for an int k
        int(k) ==
            Float64("FRound", <<k < 0,
                                Float64("BigTrim", <<<<(IF k < 0 THEN -k ELSE k) % 16384,
                                       ((IF k < 0 THEN -k ELSE k) \div 16384) % 16384,
                                       (IF k < 0 THEN -k ELSE k) \div 268435456>>>>),
                                0, FALSE>>)
        fadd(a, b) ==
            IF a.kind = "finite" /\ b.kind = "finite" /\ a.mant # <<>> /\ b.mant # <<>>
            \* an operand below 2^-60 of the other does not change the
            \* rounded sum
            THEN (IF top(b) < top(a) - 60 THEN a
                  ELSE IF top(a) < top(b) - 60 THEN b
                  ELSE Float64("FSum", <<a.neg, b.neg, IF a.exp < b.exp THEN a.exp ELSE b.exp,
                                         Float64("BigShl", <<a.mant, IF a.exp < b.exp THEN 0 ELSE a.exp - b.exp>>),
                                         Float64("BigShl", <<b.mant, IF a.exp < b.exp THEN b.exp - a.exp ELSE 0>>)>>))
            ELSE IF a.kind = "nan" \/ b.kind = "nan" THEN Special("nan", FALSE)
            ELSE IF a.kind = "inf"
            THEN (IF b.kind = "inf" /\ a.neg # b.neg THEN Special("nan", FALSE) ELSE a)
            ELSE IF b.kind = "inf" THEN b
            ELSE IF a.mant = <<>> /\ b.mant = <<>> THEN Special("finite", a.neg /\ b.neg)
            ELSE IF a.mant = <<>> THEN b
            ELSE a
        \* (-1)^aneg * m * 2^e + (-1)^bneg * n * 2^e
        fsum(aneg, bneg, e, m, n) ==
            IF aneg = bneg THEN Float64("FRound", <<aneg, Float64("BigAdd", <<m, n>>), e, FALSE>>)
            ELSE IF m = n THEN Special("finite", FALSE)
            ELSE IF Float64("BigCmp", <<m, n>>) > 0 THEN Float64("FRound", <<aneg, Float64("BigSub", <<m, n>>), e, FALSE>>)
            ELSE Float64("FRound", <<bneg, Float64("BigSub", <<n, m>>), e, FALSE>>)
        fmul(a, b) ==
            IF a.kind = "finite" /\ b.kind = "finite"
            THEN (IF a.mant = <<>> \/ b.mant = <<>> THEN Special("finite", a.neg # b.neg)
                  ELSE Float64("FRound", <<a.neg # b.neg, Float64("BigMul", <<a.mant, b.mant>>),
                                           a.exp + b.exp, FALSE>>))
            ELSE IF a.kind = "nan" \/ b.kind = "nan" \/ zero(a) \/ zero(b)
            THEN Special("nan", FALSE)
            ELSE Special("inf", a.neg # b.neg)
        fdiv(a, b) ==
            IF a.kind = "finite" /\ b.kind = "finite"
            THEN (IF b.mant = <<>>
                  THEN (IF a.mant = <<>> THEN Special("nan", FALSE)
                        ELSE Special("inf", a.neg # b.neg))
                  ELSE IF a.mant = <<>> THEN Special("finite", a.neg # b.neg)
                  ELSE Float64("FQuotient", <<a.neg # b.neg, a.mant, b.mant, a.exp - b.exp>>))
            ELSE IF a.kind = "nan" \/ b.kind = "nan" \/ (a.kind = "inf" /\ b.kind = "inf")
            THEN Special("nan", FALSE)
            ELSE IF a.kind = "inf" THEN Special("inf", a.neg # b.neg)
            ELSE Special("finite", a.neg # b.neg)
        \* the float64 nearest to (-1)^neg * (n / d) * 2^e: 56 binary digits
        \* of the quotient or more, and whether a remainder is left
        quotient(neg, n, d, e) ==
            LET k  == IF 56 + Float64("BigBitLen", <<d>>) - Float64("BigBitLen", <<n>>) > 0 THEN 56 + Float64("BigBitLen", <<d>>) - Float64("BigBitLen", <<n>>) ELSE 0
                qr == Float64("BigDivMod", <<Float64("BigShl", <<n, k>>), d>>)
            IN  Float64("FRound", <<neg, qr[1], e - k, qr[2] # <<>>>>)
        \* a < b: false for a NaN, and -0 is not below +0
        less(a, b) ==
            LET sgn(v) == IF zero(v) THEN 0 ELSE IF v.neg THEN -1 ELSE 1
            IN  IF a.kind = "nan" \/ b.kind = "nan" THEN FALSE
                ELSE IF sgn(a) # sgn(b) THEN sgn(a) < sgn(b)
                ELSE IF sgn(a) = 0 THEN FALSE
                ELSE IF sgn(a) > 0 THEN Float64("FBelow", <<a, b>>)
                ELSE Float64("FBelow", <<b, a>>)
        \* |a| < |b| for values that are not zero
        below(a, b) ==
            IF a.kind = "inf" THEN FALSE
            ELSE IF b.kind = "inf" THEN TRUE
            ELSE IF top(a) # top(b) THEN top(a) < top(b)
            ELSE Float64("BigCmp", <<Float64("BigShl", <<a.mant, IF a.exp < b.exp THEN 0 ELSE a.exp - b.exp>>),
                     Float64("BigShl", <<b.mant, IF a.exp < b.exp THEN b.exp - a.exp ELSE 0>>)>>) < 0
    IN  CASE x = <<>>           -> x
          [] op = "QAdd"        -> fadd(x[1], x[2])
          [] op = "QMul"        -> fmul(x[1], x[2])
          [] op = "QDiv"        -> fdiv(x[1], x[2])
          [] op = "QLess"       -> less(x[1], x[2])
          [] op = "Q"           -> Float64("QDiv", <<int(x[1]), int(x[2])>>)
          [] op = "FRound"      -> round(x[1], x[2], x[3], x[4])
          [] op = "FTie"        -> tie(x[1], x[2], x[3], x[4], x[5], x[6])
          [] op = "FPack"       -> pack(x[1], x[2], x[3])
          [] op = "FSum"        -> fsum(x[1], x[2], x[3], x[4], x[5])
          [] op = "FQuotient"   -> quotient(x[1], x[2], x[3], x[4])
          [] op = "FBelow"      -> below(x[1], x[2])
          [] op = "BigMul"      -> mul(x[1], x[2])
          [] op = "BigDivRun"   -> divRun(x[1], x[2], x[3], x[4], x[5])
          [] op = "BigDivDigit" -> divDigit(x[1], x[2])
          [] op = "BigDivMod"   -> divMod(x[1], x[2])
          [] op = "BigPow10"    -> pow10(x[1])
          [] op = "BigTrim"     -> trim(x[1])
          [] op = "BigAdd"      -> add(x[1], x[2])
          [] op = "BigSub"      -> sub(x[1], x[2])
          [] op = "BigCmp"      -> cmp(x[1], x[2])
          [] op = "BigShl"      -> shl(x[1], x[2])
          [] op = "BigShr"      -> shr(x[1], x[2])
          [] op = "BigBitLen"   -> bitLen(x[1])

\* float64(n) / float64(d) for ints n and d, which is also the float64 of the
\* decimal constant n/d (0.7 is Q(7, 10)) and, with d = 1, float64(n)
Q(n, d) == Float64("Q", <<n, d>>)

\* a + b
QAdd(a, b) == Float64("QAdd", <<a, b>>)

\* a * b
QMul(a, b) == Float64("QMul", <<a, b>>)

\* a / b
QDiv(a, b) == Float64("QDiv", <<a, b>>)

\* a < b
QLess(a, b) == Float64("QLess", <<a, b>>)

Zero == Special("finite", FALSE)
One == [kind |-> "finite", neg |-> FALSE, mant |-> <<1>>, exp |-> 0]

\* the characters of a text: a token is a string of one character or more
RECURSIVE Chars(_)
Chars(text) ==
    IF Len(text) = 0 THEN <<>>
    ELSE IF Len(text) = 1 THEN [i \in 1..Len(text[1]) |-> SubSeq(text[1], i, i)]
    ELSE Chars(SubSeq(text, 1, Len(text) \div 2))
         \o Chars(SubSeq(text, Len(text) \div 2 + 1, Len(text)))

\* Package strconv: Strconv(op, x) is the step op of ParseFloat(s, 64) or of
\* FormatFloat(f, 'f', -1, 64) on the operands x, which are evaluated before
\* the step; an operation on numbers is that of Float64.
RECURSIVE Strconv(_, _)
Strconv(op, x) ==
    LET \* the value of a digit; 16 for what is none
        value(c) == CHOOSE v \in 0..16 :
                        \/ v < 16 /\ SubSeq("0123456789abcdef", v + 1, v + 1) = c
                        \/ v = 16 /\ \A w \in 1..16 : SubSeq("0123456789abcdef", w, w) # c
        lower(c) ==
            LET at == {i \in 1..26 : SubSeq("ABCDEFGHIJKLMNOPQRSTUVWXYZ", i, i) = c}
            IN  IF at = {} THEN c
                ELSE SubSeq("abcdefghijklmnopqrstuvwxyz", CHOOSE i \in at : TRUE,
                            CHOOSE i \in at : TRUE)
        \* the number of the digits ds in the base
        atoi(ds, base) ==
            BagCardinality([i \in {j \in 1..Len(ds) : value(ds[j]) > 0} |->
                               value(ds[i]) * base^(Len(ds) - i)])
        \* ParseFloat: [ok, f], ok being err == nil; f is the float64 nearest
        \* to the numeral
        parseFloat(s) ==
            Strconv("special", <<s # <<>> /\ s[1] \in {"+", "-"},
                                 [i \in 1..Len(s) |-> lower(s[i])]>>)
        \* special: inf and infinity with a sign or none, nan without, in
        \* any case of the letters
        special(signed, ls) ==
            LET neg  == signed /\ ls[1] = "-"
                body == SubSeq(ls, IF signed THEN 2 ELSE 1, Len(ls))
                \* readFloat: a base prefix needs a character after it
                hex  == Len(body) > 2 /\ body[1] = "0" /\ body[2] = "x"
            IN  IF body \in {<<"i", "n", "f">>, <<"i", "n", "f", "i", "n", "i", "t", "y">>}
                THEN [ok |-> TRUE, f |-> Special("inf", neg)]
                ELSE IF ls = <<"n", "a", "n">> THEN [ok |-> TRUE, f |-> Special("nan", FALSE)]
                ELSE Strconv("readFloat", <<neg, hex, SubSeq(body, IF hex THEN 3 ELSE 1,
                                                             Len(body))>>)
        \* readFloat: the mantissa is digits and underscores around at most
        \* one point
        readFloat(neg, hex, num) ==
            LET inMant(i) == \/ num[i] = "_"
                             \/ value(num[i]) < (IF hex THEN 16 ELSE 10)
                             \/ num[i] = "." /\ \A j \in 1..(i - 1) : num[j] # "."
                stops == {i \in 1..Len(num) : ~inMant(i)}
                mantEnd == IF stops = {} THEN Len(num)
                           ELSE (CHOOSE i \in stops : \A j \in stops : i <= j) - 1
            IN  Strconv("number", <<neg, hex, num, SubSeq(num, 1, mantEnd),
                                    SubSeq(num, mantEnd + 1, Len(num))>>)
        number(neg, hex, num, mant, rest) ==
            LET isDec(c) == value(c) < 10
                isDigit(c) == value(c) < (IF hex THEN 16 ELSE 10)
                frac == Cardinality({i \in 1..Len(mant) :
                                        isDigit(mant[i]) /\ \E j \in 1..(i - 1) : mant[j] = "."})
                \* the exponent: e (p after a base prefix), a sign, decimal
                \* digits
                esigned == Len(rest) >= 2 /\ rest[2] \in {"+", "-"}
                etext == SubSeq(rest, IF esigned THEN 3 ELSE 2, Len(rest))
                expOk == /\ rest[1] = (IF hex THEN "p" ELSE "e")
                         /\ etext # <<>> /\ isDec(etext[1])
                         /\ \A i \in 1..Len(etext) : etext[i] = "_" \/ isDec(etext[i])
                \* e = e*10 + digit while e < 10000: the five digits after
                \* the zeros
                eds == SelectSeq(etext, isDec)
                ezeros == Cardinality({i \in 1..Len(eds) : \A j \in 1..i : eds[j] = "0"})
                exponent == atoi(SubSeq(eds, ezeros + 1, IF Len(eds) < ezeros + 5 THEN Len(eds)
                                                         ELSE ezeros + 5), 10)
                \* underscoreOK: an underscore stands between two digits, or
                \* between the base prefix and a digit
                underscoreOK ==
                    \A k \in 1..Len(num) : num[k] = "_" =>
                        /\ IF k = 1 THEN hex ELSE isDigit(num[k - 1])
                        /\ k < Len(num) /\ isDigit(num[k + 1])
            IN  IF \/ \A i \in 1..Len(mant) : ~isDigit(mant[i])
                   \/ IF rest = <<>> THEN hex ELSE ~expOk
                   \/ ~underscoreOK
                THEN [ok |-> FALSE, f |-> Zero]
                ELSE Strconv("scale",
                             <<neg, hex, SelectSeq(mant, isDigit),
                               (IF rest = <<>> THEN 0
                                ELSE (IF rest[2] = "-" THEN -1 ELSE 1) * exponent)
                               - (IF hex THEN 4 ELSE 1) * frac>>)
        \* the float64 nearest to the numeral ds * 10^t (ds * 2^t after a
        \* base prefix); a numeral beyond the largest float64 gives an
        \* infinity and ErrRange
        scale(neg, hex, ds, t) ==
            LET zeros == Cardinality({i \in 1..Len(ds) : \A j \in 1..i : ds[j] = "0"})
                n == Strconv("natural", <<hex, ds, zeros + 1, Len(ds)>>)
                f == IF hex THEN Strconv("FRound", <<neg, n, t, FALSE>>)
                     ELSE IF t >= 0
                     THEN Strconv("FRound", <<neg, Strconv("BigMul", <<n, Strconv("BigPow10", <<t>>)>>),
                                              0, FALSE>>)
                     ELSE Strconv("FQuotient", <<neg, n, Strconv("BigPow10", <<-t>>), 0>>)
            IN  IF zeros = Len(ds) THEN [ok |-> TRUE, f |-> Special("finite", neg)]
                \* above 10^310 and below 10^-330 there is no finite float64
                \* and none that is not zero
                ELSE IF ~hex /\ Len(ds) - zeros + t > 310 THEN [ok |-> FALSE, f |-> Special("inf", neg)]
                ELSE IF ~hex /\ Len(ds) - zeros + t < -330 THEN [ok |-> TRUE, f |-> Special("finite", neg)]
                ELSE [ok |-> f.kind = "finite", f |-> f]
        \* the natural number of the digits lo..hi of ds
        natural(hex, ds, lo, hi) ==
            IF hi - lo < 3 THEN Strconv("BigTrim", <<<<atoi(SubSeq(ds, lo, hi), IF hex THEN 16 ELSE 10)>>>>)
            ELSE Strconv("BigAdd",
                         <<Strconv("BigMul",
                                   <<Strconv("natural", <<hex, ds, lo, (lo + hi) \div 2>>),
                                     IF hex THEN Strconv("BigShl", <<<<1>>, 4 * (hi - (lo + hi) \div 2)>>)
                                     ELSE Strconv("BigPow10", <<hi - (lo + hi) \div 2>>)>>),
                           Strconv("natural", <<hex, ds, (lo + hi) \div 2 + 1, hi>>)>>)
        \* FormatFloat: the shortest decimal numeral that ParseFloat reads
        \* back as f, written without an exponent
        formatFloat(f) ==
            LET top == Strconv("BigBitLen", <<f.mant>>) + f.exp
            IN  IF f.kind = "nan" THEN <<"N", "a", "N">>
                ELSE IF f.kind = "inf" THEN <<IF f.neg THEN "-" ELSE "+", "I", "n", "f">>
                ELSE IF f.mant = <<>> THEN (IF f.neg THEN <<"-", "0">> ELSE <<"0">>)
                \* the exponent of the last of the 53 binary digits
                ELSE Strconv("shortest", <<f, IF top - 53 > -1074 THEN top - 53 ELSE -1074>>)
        shortest(f, last) ==
            LET m4   == Strconv("BigShl", <<f.mant, f.exp - last + 2>>)
                \* f and the middles to its two neighbours, as multiples of
                \* 10^-k; the neighbour below a power of two is at half the
                \* distance
                k    == IF last < 2 THEN 2 - last ELSE 0
                unit == IF last < 2 THEN Strconv("BigShr", <<Strconv("BigPow10", <<k>>), k>>)
                        ELSE Strconv("BigShl", <<<<1>>, last - 2>>)
            IN  \* an integer below 2^53 is the only numeral in reach that
                \* has no more digits than it
                IF f.exp >= 0 /\ last <= 0
                THEN Strconv("place",
                             <<f.neg, 0, Strconv("digits", <<Strconv("BigShl", <<f.mant, f.exp>>)>>)>>)
                ELSE Strconv("interval",
                             <<f.neg, k, Strconv("BigMul", <<m4, unit>>),
                               Strconv("BigMul",
                                       <<Strconv("BigSub",
                                                 <<m4, IF f.mant = <<1>> /\ last > -1074
                                                       THEN <<1>> ELSE <<2>>>>), unit>>),
                               Strconv("BigMul", <<Strconv("BigAdd", <<m4, <<2>>>>), unit>>),
                               \* the middles round to f if the last binary
                               \* digit of f is 0
                               f.exp > last>>)
        interval(neg, k, v, lo, hi, inclusive) ==
            LET most == (Strconv("BigBitLen", <<hi>>) * 30103) \div 100000 + 1
                \* the most digits that can be rounded away
                p    == most - (CHOOSE j \in 0..most :
                                   /\ Strconv("cut", <<v, lo, hi, inclusive, most - j>>).ok
                                   /\ \A i \in 0..(j - 1) :
                                          ~Strconv("cut", <<v, lo, hi, inclusive, most - i>>).ok)
            IN  Strconv("place",
                        <<neg, p - k,
                          Strconv("digits", <<Strconv("cut", <<v, lo, hi, inclusive, p>>).n>>)>>)
        \* v with its last p decimal digits rounded away
        cut(v, lo, hi, inclusive, p) ==
            LET pw   == Strconv("BigPow10", <<p>>)
                qr   == Strconv("BigDivMod", <<v, pw>>)
                down == Strconv("BigSub", <<v, qr[2]>>)
                okdown == Strconv("BigCmp", <<down, lo>>) > (IF inclusive THEN -1 ELSE 0)
                okup == Strconv("BigCmp", <<Strconv("BigAdd", <<down, pw>>), hi>>)
                            < (IF inclusive THEN 1 ELSE 0)
                half == Strconv("BigCmp", <<Strconv("BigShl", <<qr[2], 1>>), pw>>)
                nearer == half > 0 \/ (half = 0 /\ qr[1] # <<>> /\ qr[1][1] % 2 = 1)
            IN  [ok |-> okdown \/ okup,
                 n  |-> IF okup /\ (~okdown \/ nearer) THEN Strconv("BigAdd", <<qr[1], <<1>>>>)
                        ELSE qr[1]]
        \* the decimal digits of n, which is below 10^20, as 20 digits: four
        \* pieces of five
        digits(n) ==
            LET high == Strconv("BigDivMod", <<n, Strconv("BigPow10", <<10>>)>>)
                a == Strconv("BigDivMod", <<high[1], Strconv("BigPow10", <<5>>)>>)
                b == Strconv("BigDivMod", <<high[2], Strconv("BigPow10", <<5>>)>>)
                five(m) ==
                    LET v == (IF Len(m) > 0 THEN m[1] ELSE 0)
                             + 16384 * (IF Len(m) > 1 THEN m[2] ELSE 0)
                    IN  [i \in 1..5 |-> SubSeq("0123456789", ((v \div 10^(5 - i)) % 10) + 1,
                                               ((v \div 10^(5 - i)) % 10) + 1)]
            IN  five(a[1]) \o five(a[2]) \o five(b[1]) \o five(b[2])
        \* the digits all * 10^point, without the leading zeros
        place(neg, point, all) ==
            LET zeros == Cardinality({i \in 1..Len(all) : \A j \in 1..i : all[j] = "0"})
                sig == SubSeq(all, zeros + 1, Len(all))
                pad == IF Len(sig) > -point THEN sig
                       ELSE [i \in 1..(1 - point - Len(sig)) |-> "0"] \o sig
            IN  (IF neg THEN <<"-">> ELSE <<>>)
                \o (IF point >= 0 THEN sig \o [i \in 1..point |-> "0"]
                    ELSE SubSeq(pad, 1, Len(pad) + point) \o <<".">>
                         \o SubSeq(pad, Len(pad) + point + 1, Len(pad)))
    IN  CASE x = <<>>           -> x
          [] op = "ParseFloat"  -> parseFloat(x[1])
          [] op = "special"     -> special(x[1], x[2])
          [] op = "readFloat"   -> readFloat(x[1], x[2], x[3])
          [] op = "number"      -> number(x[1], x[2], x[3], x[4], x[5])
          [] op = "scale"       -> scale(x[1], x[2], x[3], x[4])
          [] op = "natural"     -> natural(x[1], x[2], x[3], x[4])
          [] op = "FormatFloat" -> formatFloat(x[1])
          [] op = "shortest"    -> shortest(x[1], x[2])
          [] op = "interval"    -> interval(x[1], x[2], x[3], x[4], x[5], x[6])
          [] op = "cut"         -> cut(x[1], x[2], x[3], x[4], x[5])
          [] op = "digits"      -> digits(x[1])
          [] op = "place"       -> place(x[1], x[2], x[3])
          [] OTHER              -> Float64(op, x)

\* strconv.ParseFloat(text, 64)
ParseFloat(text) == Strconv("ParseFloat", <<Chars(text)>>)

\* strconv.FormatFloat(f, 'f', -1, 64)
FormatFloat(f) == Strconv("FormatFloat", <<f>>)

\* 0.5
Half == [kind |-> "finite", neg |-> FALSE, mant |-> <<1>>, exp |-> -1]

\* utils.NormalizeNumber
NormalizeNumber(text) ==
    LET machine(fp(_, _)) ==
            LET keep(c) == c \notin {",", "$", " "}
                \* the 'f' format of what ParseFloat made of t; t if it made nothing
                format(t, parsed) == IF parsed.ok THEN fp("FormatFloat", <<parsed.f>>) ELSE t
                normal(t) == format(t, fp("ParseFloat", <<t>>))
            IN  normal(SelectSeq(TrimSpace(Chars(text)), keep))
    IN  machine(Strconv)

\* a comparison that normalises the second answer only
CompareMathAnswersOneSided(answer1, answer2) ==
    Chars(answer1) = Chars(answer2) \/ Chars(answer1) = NormalizeNumber(answer2)

\* utils.CompareMathAnswers
CompareMathAnswers(answer1, answer2) ==
    LET \* fp: the float64 and strconv operations; norm: the two normalised answers
        machine(fp(_, _), norm) ==
            LET fadd(x, y) == fp("QAdd", <<x, y>>)
                fless(x, y) == fp("QLess", <<x, y>>)
                float(n, d) == fp("Q", <<n, d>>)
            IN
            LET \* num1-num2 < epsilon && num2-num1 < epsilon; a - b is a + (-b)
                near(num1, num2) ==
                    \A d \in {<<num1, num2>>, <<num2, num1>>} :
                        fless(fadd(d[1], [d[2] EXCEPT !.neg = d[2].kind # "nan" /\ ~d[2].neg]),
                              float(1, 1000000000))
                numeric(p1, p2) == p1.ok /\ p2.ok /\ near(p1.f, p2.f)
                parsed(p) == numeric(p[1], p[2])
            IN  \/ Chars(answer1) = Chars(answer2)
                \/ norm[1] = norm[2]
                \/ parsed([i \in 1..2 |-> fp("ParseFloat", <<norm[i]>>)])
    IN  machine(Strconv, [i \in 1..2 |-> NormalizeNumber(<<answer1, answer2>>[i])])

\* utils.ExtractBoxedAnswer
ExtractBoxedAnswer(text) ==
    LET boxedStart == Index(text, <<"\\boxed{">>)
        delta(tok) == CASE tok \in {"{", "\\boxed{"} -> 1 [] tok = "}" -> -1 [] OTHER -> 0
        \* count after reading text[boxedStart+1 .. i]
        C[i \in boxedStart..Len(text)] ==
            IF i = boxedStart THEN 1 ELSE C[i - 1] + delta(text[i])
        closes == {i \in (boxedStart + 1)..Len(text) :
                      C[i] = 0 /\ \A j \in boxedStart..(i - 1) : C[j] > 0}
    IN  IF boxedStart = 0 \/ closes = {} THEN text
        ELSE SubSeq(text, boxedStart + 1, (CHOOSE i \in closes : TRUE) - 1)

-----------------------------------------------------------------------------
(* Tool calls (pkg/tools) *)

\* strings.Split(s, sep) for a one-token separator
RECURSIVE Split(_, _)
Split(s, sep) ==
    LET i == Index(s, <<sep>>)
    IN  IF i = 0 THEN <<s>>
        ELSE <<SubSeq(s, 1, i - 1)>> \o Split(SubSeq(s, i + 1, Len(s)), sep)

\* The JSON payloads of the model, one token each
JCalc    == "{\"name\": \"calculate\", \"args\": {\"expression\": \"2 + 2\"}}"
JUnknown == "{\"name\": \"lookup\", \"args\": {}}"
JNoArgs  == "{\"name\": \"calculate\"}"
JNoName  == "{\"args\": {}}"
JBad     == "{name: calculate"

\* json.Unmarshal of text into an object: [ok, name, hasArgs, expr]; name is ""
\* and hasArgs is FALSE for a key the object lacks
JSONUnmarshal(text) ==
    LET obj(n, a, e) == [ok |-> TRUE, name |-> n, hasArgs |-> a, expr |-> e]
    IN  CASE text = <<JCalc>>    -> obj("calculate", TRUE, "2 + 2")
          [] text = <<JUnknown>> -> obj("lookup", TRUE, "")
          [] text = <<JNoArgs>>  -> obj("calculate", FALSE, "")
          [] text = <<JNoName>>  -> obj("", TRUE, "")
          [] OTHER -> [ok |-> FALSE, name |-> "", hasArgs |-> FALSE, expr |-> ""]

\* the tool list every tool environment of the model is built with: the calculator
ToolList == <<"calculate">>

\* Calculator.execute, by way of BaseTool.Execute, flattened to text by ExecuteTool
CalculatorExecute(call) ==
    IF call.expr = "" THEN <<"Error:", " missing required argument 'expression'">>
    ELSE IF call.expr = "2 + 2" THEN <<"4">>
    ELSE <<"Error:", " invalid expression">>

\* a callTool that yields nothing for a tool call it cannot decode or dispatch
CallToolSilent(toolJSON, tools) ==
    LET call == JSONUnmarshal(toolJSON)
    IN  IF ~call.ok \/ call.name = "" \/ \A k \in 1..Len(tools) : tools[k] # call.name
        THEN <<>>
        ELSE CalculatorExecute(call)

\* tools.ParseToolCall followed by tools.ExecuteTool: the callTool of ToolEnv and
\* of SmolaToolEnv
CallTool(toolJSON, tools) ==
    LET call == JSONUnmarshal(toolJSON)
        format == " Please format your tool call as '{\"name\": \"tool_name\", \"args\": {\"arg1\": \"value1\"}}'"
    IN  IF ~call.ok THEN <<"Error:", " invalid JSON", ".", format>>
        ELSE IF call.name = "" THEN <<"Error:", " tool call must specify 'name'", ".", format>>
        ELSE IF \A k \in 1..Len(tools) : tools[k] # call.name
             THEN <<"Error:", " Unknown tool '", call.name, "'. Available tools: ">> \o tools
        ELSE CalculatorExecute(call)

\* ToolRubric.extractToolCalls: the trimmed, non-empty texts between <tool> and
\* the next </tool>
ExtractToolCalls(resp) ==
    LET parts == Tail(Split(resp, "<tool>"))
        body(part) == TrimSpace(SubSeq(part, 1, Index(part, <<"</tool>">>) - 1))
        good(part) == Index(part, <<"</tool>">>) > 1 /\ body(part) # <<>>
        sel == SelectSeq(parts, good)
    IN  [k \in 1..Len(sel) |-> body(sel[k])]

-----------------------------------------------------------------------------
(* Rubrics (pkg/rubrics) *)

\* A reward function is the record of what its closure holds: [name, parser, tools].
\* Applied to (parsed, groundTruth) it gives [err, reward].

Reward(q) == [err |-> <<>>, reward |-> q]

\* an exact match that compares without trimming
ExactMatchUntrimmed(parsed, groundTruth) ==
    Reward(IF parsed = groundTruth THEN One ELSE Zero)

\* exactMatchReward of NewBaseRubric
ExactMatchReward(parsed, groundTruth) ==
    Reward(IF TrimSpace(parsed) = TrimSpace(groundTruth) THEN One ELSE Zero)

\* correctAnswerFunc of NewMathRubric and of NewCodeMathRubric
MathCorrectAnswer(fn, parsed, groundTruth) ==
    LET x == ParseXML(fn.parser, parsed)
        p == IF x.err = <<>> /\ Field(x.Fields, "answer") # <<>>
             THEN x.Fields["answer"] ELSE parsed
    IN  Reward(IF CompareMathAnswers(p, groundTruth) THEN One ELSE Zero)

\* formatFunc of NewMathRubric
MathFormat(fn, resp) ==
    LET machine(fp(_, _)) ==
            LET fadd(x, y) == fp("QAdd", <<x, y>>)
                float(n, d) == fp("Q", <<n, d>>)
            IN
            LET x == ParseXML(fn.parser, resp)
                names == Flatten(fn.parser.fields)
                has(n) == \E k \in 1..Len(names) : names[k] = n
            IN  IF x.err # <<>> THEN Reward(Zero)
                ELSE Reward(fadd(fadd(IF Field(x.Fields, "think") # <<>> THEN float(4, 10) ELSE Zero,
                                      IF Field(x.Fields, "answer") # <<>> THEN float(4, 10) ELSE Zero),
                                 IF has("think") /\ has("answer") /\ Cardinality(DOMAIN x.Fields) >= 2
                                 THEN float(2, 10) ELSE Zero))
    IN  machine(Float64)

\* CodeMathRubric.evaluateCodeExecution
EvaluateCodeExecution(fn, resp) ==
    LET x == ParseXML(fn.parser, resp)
        lower == ToLower(resp)
        errorIndicators == {"error:", "traceback", "exception", "syntaxerror", "nameerror",
                            "typeerror", "valueerror", "zerodivisionerror",
                            "code execution error"}
        successIndicators == {"code output:", "result:", "output:"}
        anError == \E k \in 1..Len(lower) : lower[k] \in errorIndicators
        hasSuccess == ~anError /\ \E k \in 1..Len(lower) : lower[k] \in successIndicators
    IN  IF x.err # <<>> \/ Field(x.Fields, "code") = <<>> THEN Reward(Zero)
        ELSE IF hasSuccess /\ ~anError THEN Reward(One)
        ELSE IF anError THEN Reward(Zero)
        ELSE Reward(Half)

\* correctAnswerFunc of NewToolRubric
ToolCorrectAnswer(fn, parsed, groundTruth) ==
    LET x == ParseXML(fn.parser, parsed)
        p == IF x.err = <<>> /\ Field(x.Fields, "answer") # <<>>
             THEN x.Fields["answer"] ELSE parsed
    IN  Reward(IF TrimSpace(p) = TrimSpace(groundTruth) THEN One ELSE Zero)

\* ToolRubric.evaluateFormat
EvaluateFormat(fn, resp) ==
    LET machine(fp(_, _)) ==
            LET fadd(x, y) == fp("QAdd", <<x, y>>)
                fdiv(x, y) == fp("QDiv", <<x, y>>)
                fless(x, y) == fp("QLess", <<x, y>>)
                float(n, d) == fp("Q", <<n, d>>)
            IN
            LET messages == Split(resp, "\n---\n")
                in(msg, tok) == \E k \in 1..Len(msg) : msg[k] = tok
                tags(msg, n) == in(msg, "<" \o n \o ">") /\ in(msg, "</" \o n \o ">")
                part(c, q) == IF c THEN q ELSE Zero
                \* the score of one message, x what ParseXML made of it
                \* (score += by score += in the order of the code)
                raw(msg, x) ==
                    fadd(fadd(fadd(fadd(part(tags(msg, "think"), float(3, 10)),
                                        part(tags(msg, "tool") \/ tags(msg, "answer"), float(4, 10))),
                                   part(x.err = <<>>, float(3, 10))),
                              part(x.err = <<>> /\ Field(x.Fields, "think") # <<>>, float(1, 10))),
                         part(/\ x.err = <<>>
                              /\ \/ Field(x.Fields, "tool") # <<>>
                                 \/ Field(x.Fields, "answer") # <<>>, float(1, 10)))
                capped(q) == IF fless(One, q) THEN One ELSE q
                Total[k \in 0..Len(messages)] ==
                    IF k = 0 THEN Zero
                    ELSE fadd(Total[k - 1],
                              capped(raw(messages[k], ParseXML(fn.parser, messages[k]))))
            IN  Reward(fdiv(Total[Len(messages)], float(Len(messages), 1)))
    IN  machine(Float64)

\* ToolRubric.evaluateToolUsage
EvaluateToolUsage(fn, resp) ==
    LET toolCalls == ExtractToolCalls(resp)
        valid(k) == LET c == JSONUnmarshal(toolCalls[k])
                    IN  /\ c.ok /\ c.name # ""
                        /\ \E t \in 1..Len(fn.tools) : fn.tools[t] = c.name
                        /\ c.hasArgs
    IN  IF toolCalls = <<>> THEN Reward(Half)
        ELSE IF \E k \in 1..Len(toolCalls) : valid(k) THEN Reward(One)
        ELSE Reward(Zero)

\* correctAnswerFunc of NewSmolaToolRubric
SmolaCorrectAnswer(fn, parsed, groundTruth) ==
    LET x == ParseXML(fn.parser, parsed)
        fields == fn.parser.fields
        lastField == fields[Len(fields)][1]
        p == IF x.err = <<>> /\ fields # <<>> /\ Field(x.Fields, lastField) # <<>>
             THEN x.Fields[lastField] ELSE parsed
    IN  Reward(IF TrimSpace(p) = TrimSpace(groundTruth) THEN One ELSE Zero)

\* SmolaParser.FollowsFormat
FollowsFormat(p, text) ==
    LET machine(fp(_, _)) ==
            LET fadd(x, y) == fp("QAdd", <<x, y>>)
                fmul(x, y) == fp("QMul", <<x, y>>)
                float(n, d) == fp("Q", <<n, d>>)
            IN
            LET x == ParseXML(p, text)
                n == Len(p.fields)
                present == {i \in 1..n : \E k \in 1..Len(p.fields[i]) :
                                            Field(x.Fields, p.fields[i][k]) # <<>>}
                \* the unstripped capture of a field that is present is never empty
                hasCorrectSpacing == TRUE
                trimmed == TrimSpace(text)
                starts == n > 0 /\ \E k \in 1..Len(p.fields[1]) :
                                      HasPrefix(trimmed, <<"<" \o p.fields[1][k] \o ">">>)
                ends   == n > 0 /\ \E k \in 1..Len(p.fields[n]) :
                                      HasSuffix(trimmed, <<"</" \o p.fields[n][k] \o ">">>)
                part(c, q) == IF c THEN q ELSE Zero
            IN  IF x.err # <<>> THEN Zero
                ELSE fadd(fadd(fadd(part(present # {},
                                         fmul(float(4, 10), float(Cardinality(present), IF n = 0 THEN 1 ELSE n))),
                                    part(hasCorrectSpacing, float(2, 10))),
                               part(starts, float(2, 10))),
                          part(ends, float(2, 10)))
    IN  machine(Float64)

\* SmolaToolRubric.createToolUsageFunc, over SmolaToolRubric.extractToolCalls
SmolaToolUsage(fn, resp) ==
    LET machine(fp(_, _)) ==
            LET float(n, d) == fp("Q", <<n, d>>)
            IN
            LET \* extractToolCalls: nothing when the parser fails; else the tool field
                \* of the parser, then every <tool> block of the text that is not in the
                \* list yet
                first(x) == IF Field(x.Fields, "tool") # <<>> THEN <<x.Fields["tool"]>> ELSE <<>>
                merged(x, head, blocks) ==
                    LET new == {k \in 1..Len(blocks) :
                                   /\ \A h \in 1..Len(head) : head[h] # blocks[k]
                                   /\ \A j \in 1..(k - 1) : blocks[j] # blocks[k]}
                        nth(i) == CHOOSE k \in new : Cardinality({j \in new : j < k}) = i - 1
                    IN  IF x.err # <<>> THEN <<>>
                        ELSE head \o [i \in 1..Cardinality(new) |-> blocks[nth(i)]]
                decoded(toolCalls) == [k \in 1..Len(toolCalls) |-> JSONUnmarshal(toolCalls[k])]
                rate(calls) ==
                    LET uses == {k \in 1..Len(calls) : calls[k].ok /\ calls[k].name = fn.tools[1]}
                        succ == {k \in 1..Len(calls) : calls[k].ok /\ calls[k].name = fn.tools[1]
                                                       /\ calls[k].hasArgs}
                    IN  IF uses # {} THEN Reward(float(Cardinality(succ), Cardinality(uses)))
                        ELSE Reward(Zero)
                calls(x) == merged(x, first(x), ExtractToolCalls(resp))
            IN  rate(decoded(calls(ParseXML(fn.parser, resp))))
    IN  machine(Float64)

\* JudgeRubric.judge; fn.client is what the judge client returns, [err, text]
Judge(fn) ==
    LET resp == TrimSpace(ToLower(fn.client.text))
    IN  IF fn.client.err # <<>>
        THEN [err |-> <<"judge evaluation failed">> \o fn.client.err, reward |-> Zero]
        ELSE IF Contains(resp, <<"yes">>) THEN Reward(One)
        ELSE Reward(Zero)

\* a types.RewardFunc applied to its arguments
RewardFunc(fn, parsed, groundTruth) ==
    CASE fn.name = "exact_match"     -> ExactMatchReward(parsed, groundTruth)
      [] fn.name = "math_correct"    -> MathCorrectAnswer(fn, parsed, groundTruth)
      [] fn.name = "math_format"     -> MathFormat(fn, parsed)
      [] fn.name = "code_execution"  -> EvaluateCodeExecution(fn, parsed)
      [] fn.name = "tool_correct"    -> ToolCorrectAnswer(fn, parsed, groundTruth)
      [] fn.name = "tool_format"     -> EvaluateFormat(fn, parsed)
      [] fn.name = "tool_usage"      -> EvaluateToolUsage(fn, parsed)
      [] fn.name = "smola_correct"   -> SmolaCorrectAnswer(fn, parsed, groundTruth)
      [] fn.name = "smola_format"    -> Reward(FollowsFormat(fn.parser, parsed))
      [] fn.name = "smola_usage"     -> SmolaToolUsage(fn, parsed)
      [] fn.name = "judge"           -> Judge(fn)
      [] fn.name = "metric"          -> fn.returns

\* what the judge client of a rubric without a judge answers
NoClient == [err |-> <<>>, text |-> <<>>]

\* a reward function: the values its closure holds
Fn(name, parser, tools) ==
    [name |-> name, parser |-> parser, tools |-> tools, client |-> NoClient]

\* a reward function a caller registers: it returns what the caller wrote it
\* to return, [err, reward]
Metric(returns) == [name |-> "metric", returns |-> returns]

\* The rubric objects: [type, rewardFuncs, rewardWeights]

NilRubric == [type |-> "nil", rewardFuncs |-> <<>>, rewardWeights |-> <<>>]

NewBaseRubric ==
    [type |-> "base", rewardFuncs |-> <<Fn("exact_match", NilParser, <<>>)>>,
     rewardWeights |-> <<One>>]

\* MultiMetricRubric.AddMetric
AddMetric(r, fn, weight) ==
    [r EXCEPT !.rewardFuncs = Append(@, fn), !.rewardWeights = Append(@, weight)]

\* NewMultiMetricRubric starts from the rubric NewBaseRubric returns
NewMultiMetricRubric == [NewBaseRubric EXCEPT !.type = "multi"]

NewMathRubric ==
    LET parser == NewXMLParser(<<<<"think">>, <<"answer">>>>, "answer")
        \* float(n, d) is the float64 constant n/d
        weighted(float(_, _)) ==
            [AddMetric(AddMetric(NewMultiMetricRubric,
                                 Fn("math_correct", parser, <<>>), float(8, 10)),
                       Fn("math_format", parser, <<>>), float(2, 10))
             EXCEPT !.type = "math"]
    IN  weighted(Q)

NewCodeMathRubric ==
    LET codeParser == NewXMLParser(<<<<"reasoning">>, <<"code">>, <<"answer">>>>, "answer")
        cleared == [NewMathRubric EXCEPT !.type = "math", !.rewardFuncs = <<>>,
                                         !.rewardWeights = <<>>]
        weighted(float(_, _)) ==
            AddMetric(AddMetric(cleared, Fn("math_correct", codeParser, <<>>), float(7, 10)),
                      Fn("code_execution", codeParser, <<>>), float(3, 10))
    IN  weighted(Q)

NewToolRubric(toolList, parser) ==
    LET weighted(float(_, _)) ==
            [AddMetric(AddMetric(AddMetric(NewMultiMetricRubric,
                                           Fn("tool_correct", parser, toolList), float(6, 10)),
                                 Fn("tool_format", parser, toolList), float(2, 10)),
                       Fn("tool_usage", parser, toolList), float(2, 10))
             EXCEPT !.type = "tool"]
    IN  weighted(Q)

NewSmolaToolRubric(toolList, parser) ==
    LET weighted(float(_, _)) ==
            LET base == AddMetric(AddMetric(NewMultiMetricRubric,
                                            Fn("smola_correct", parser, toolList),
                                            float(7, 10)),
                                  Fn("smola_format", parser, toolList), float(3, 10))
                WithUsage[k \in 0..Len(toolList)] ==
                    IF k = 0 THEN base
                    ELSE AddMetric(WithUsage[k - 1],
                                   Fn("smola_usage", parser, <<toolList[k]>>), float(1, 10))
            IN  [WithUsage[Len(toolList)] EXCEPT !.type = "smola"]
    IN  weighted(Q)

\* NewJudgeRubric; judgeClient is what the judge client answers: [err, text]
NewJudgeRubric(judgeClient) ==
    [type |-> "judge",
     rewardFuncs |-> <<[Fn("judge", NilParser, <<>>) EXCEPT !.client = judgeClient]>>,
     rewardWeights |-> <<One>>]

\* an aggregator that goes on after a failing reward function and reports the
\* last failure
BaseComputeRewardLastError(r, parsed, groundTruth) ==
    LET machine(fp(_, _), res) ==
            LET fadd(x, y) == fp("QAdd", <<x, y>>)
                fmul(x, y) == fp("QMul", <<x, y>>)
                fdiv(x, y) == fp("QDiv", <<x, y>>)
                fless(x, y) == fp("QLess", <<x, y>>)
            IN
            LET n == Len(r.rewardFuncs)
                bad == {k \in 1..n : res[k].err # <<>>}
                T[k \in 0..n] ==
                    IF k = 0 THEN <<Zero, Zero>>
                    ELSE <<fadd(T[k - 1][1], fmul(res[k].reward, r.rewardWeights[k])),
                           fadd(T[k - 1][2], r.rewardWeights[k])>>
            IN  IF bad # {}
                THEN [err |-> res[CHOOSE k \in bad : \A j \in bad : j <= k].err,
                      score |-> Zero, calls |-> n]
                ELSE IF fless(Zero, T[n][2])
                THEN [err |-> <<>>, score |-> fdiv(T[n][1], T[n][2]), calls |-> n]
                ELSE [err |-> <<>>, score |-> Zero, calls |-> n]
    IN  machine(Float64, [k \in 1..Len(r.rewardFuncs) |->
                             RewardFunc(r.rewardFuncs[k], parsed, groundTruth)])

\* BaseRubric.ComputeReward: [err, score], and calls, the number of reward
\* functions it invoked
BaseComputeReward(r, parsed, groundTruth) ==
    LET \* fp: the float64 operations; returns[i]: what the i-th reward function
        \* returns when the loop calls it
        machine(fp(_, _), returns) ==
            LET fadd(x, y) == fp("QAdd", <<x, y>>)
                fmul(x, y) == fp("QMul", <<x, y>>)
                fdiv(x, y) == fp("QDiv", <<x, y>>)
                fless(x, y) == fp("QLess", <<x, y>>)
            IN
            LET n == Len(r.rewardFuncs)
                weight(i) == IF i <= Len(r.rewardWeights) THEN r.rewardWeights[i] ELSE One
                \* one iteration of the loop: the sums so far, the value the reward
                \* function returns, its weight
                Step(prev, res, w) ==
                    IF prev.err # <<>> THEN prev
                    ELSE IF res.err # <<>>
                    THEN [prev EXCEPT !.err = res.err, !.calls = @ + 1]
                    ELSE [err |-> <<>>,
                          totalReward |-> fadd(prev.totalReward, fmul(res.reward, w)),
                          totalWeight |-> fadd(prev.totalWeight, w),
                          calls |-> prev.calls + 1]
                Acc[i \in 0..n] ==
                    IF i = 0 THEN [err |-> <<>>, totalReward |-> Zero, totalWeight |-> Zero,
                                   calls |-> 0]
                    ELSE Step(Acc[i - 1], returns[i], weight(i))
                Result(end) ==
                    IF n = 0 THEN [err |-> <<>>, score |-> Zero, calls |-> 0]
                    ELSE IF end.err # <<>>
                    THEN [err |-> end.err, score |-> Zero, calls |-> end.calls]
                    ELSE IF fless(Zero, end.totalWeight)
                    THEN [err |-> <<>>, score |-> fdiv(end.totalReward, end.totalWeight),
                          calls |-> end.calls]
                    ELSE [err |-> <<>>, score |-> Zero, calls |-> end.calls]
            IN  Result(Acc[n])
    IN  machine(Float64, [i \in 1..Len(r.rewardFuncs) |->
                             RewardFunc(r.rewardFuncs[i], parsed, groundTruth)])

\* Rubric.ComputeReward, dispatched on the rubric: MathRubric.ComputeReward (which
\* CodeMathRubric inherits) unboxes the ground truth first
ComputeReward(r, parsed, groundTruth) ==
    BaseComputeReward(r, parsed, IF r.type = "math" THEN ExtractBoxedAnswer(groundTruth)
                                 ELSE groundTruth)

\* CodeMathRubric.ComputeRewardWithState: [err, score]; st is the state map
ComputeRewardWithState(r, parsed, groundTruth, st) ==
    LET \* fp: the float64 operations; base: what r.ComputeReward returns
        machine(fp(_, _), base) ==
            LET fadd(x, y) == fp("QAdd", <<x, y>>)
                fmul(x, y) == fp("QMul", <<x, y>>)
                fdiv(x, y) == fp("QDiv", <<x, y>>)
                float(n, d) == fp("Q", <<n, d>>)
            IN
            LET executions == Field(st, "code_executions")
                successCount == Cardinality({k \in 1..Len(executions) : executions[k].success})
                Rescored(baseScore) ==
                    \* the constant 0.7 + 0.3 is exact: it is 1
                    LET answerScore == fmul(fdiv(baseScore, One), float(7, 10))
                    IN  fadd(answerScore, fmul(float(successCount, Len(executions)), float(3, 10)))
            IN  IF base.err # <<>> THEN [err |-> base.err, score |-> Zero]
                ELSE IF Len(executions) > 0 THEN [err |-> <<>>, score |-> Rescored(base.score)]
                ELSE [err |-> <<>>, score |-> base.score]
    IN  machine(Float64, ComputeReward(r, parsed, groundTruth))

\* NewRubricGroup: the member rubrics in the order the group holds them
NewRubricGroup(rubrics, mergeWeights) ==
    [type |-> "group", rubrics |-> rubrics, mergeWeights |-> mergeWeights,
     rewardFuncs |-> <<>>, rewardWeights |-> <<>>]

\* RubricGroup.AddRubric
AddRubric(g, rubric) == [g EXCEPT !.rubrics = Append(@, rubric)]

\* the members' lists one after the other, in member order; field is
\* "rewardFuncs" or "rewardWeights"
RECURSIVE Concatenated(_, _)
Concatenated(rubrics, field) ==
    IF rubrics = <<>> THEN <<>>
    ELSE Head(rubrics)[field] \o Concatenated(Tail(rubrics), field)

\* RubricGroup.GetRewardFuncs over members that are not groups themselves.  In
\* merge mode every function gets a key of its own ("func_i_j"), so no merged
\* function is ever made, and the result lists the functions in the order the
\* runtime iterates the key map: iteration[k] is the position, in member order,
\* of the function that comes out k-th.
RubricGroupGetRewardFuncs(g, iteration) ==
    LET funcs == Concatenated(g.rubrics, "rewardFuncs")
    IN  IF g.mergeWeights THEN [k \in 1..Len(funcs) |-> funcs[iteration[k]]]
        ELSE funcs

\* a group that spreads the total weight evenly in both modes
RubricGroupGetRewardWeightsEven(g) ==
    LET machine(fp(_, _)) ==
            LET fadd(x, y) == fp("QAdd", <<x, y>>)
                fdiv(x, y) == fp("QDiv", <<x, y>>)
                float(n, d) == fp("Q", <<n, d>>)
            IN
            LET ws == Concatenated(g.rubrics, "rewardWeights")
                funcCount == Len(Concatenated(g.rubrics, "rewardFuncs"))
                totalWeight[k \in 0..Len(ws)] ==
                    IF k = 0 THEN Zero ELSE fadd(totalWeight[k - 1], ws[k])
            IN  IF funcCount > 0
                THEN [i \in 1..funcCount |-> fdiv(totalWeight[Len(ws)], float(funcCount, 1))]
                ELSE <<>>
    IN  machine(Float64)

\* RubricGroup.GetRewardWeights over members that are not groups themselves
RubricGroupGetRewardWeights(g) ==
    LET machine(fp(_, _)) ==
            LET fadd(x, y) == fp("QAdd", <<x, y>>)
                fdiv(x, y) == fp("QDiv", <<x, y>>)
                float(n, d) == fp("Q", <<n, d>>)
            IN
            LET ws == Concatenated(g.rubrics, "rewardWeights")
                funcCount == Len(Concatenated(g.rubrics, "rewardFuncs"))
                totalWeight[k \in 0..Len(ws)] ==
                    IF k = 0 THEN Zero ELSE fadd(totalWeight[k - 1], ws[k])
            IN  IF g.mergeWeights
                THEN IF funcCount > 0
                     THEN [i \in 1..funcCount |-> fdiv(totalWeight[Len(ws)], float(funcCount, 1))]
                     ELSE <<>>
                ELSE ws
    IN  machine(Float64)

\* a group that keeps the weight of a failed member in the denominator
RubricGroupCountsFailed(g, parsed, groundTruth) ==
    LET \* fp: the float64 operations; scores[i]: what ComputeReward of the i-th
        \* member returns
        machine(fp(_, _), scores) ==
            LET fadd(x, y) == fp("QAdd", <<x, y>>)
                fmul(x, y) == fp("QMul", <<x, y>>)
                fdiv(x, y) == fp("QDiv", <<x, y>>)
                fless(x, y) == fp("QLess", <<x, y>>)
            IN
            LET n == Len(g.rubrics)
                rubricWeight(ws) ==
                    LET S[k \in 0..Len(ws)] == IF k = 0 THEN Zero ELSE fadd(S[k - 1], ws[k])
                    IN  IF S[Len(ws)] = Zero /\ Len(ws) = 0 THEN One ELSE S[Len(ws)]
                Step(prev, res, w) ==
                    [totalScore |-> IF res.err # <<>> THEN prev.totalScore
                                    ELSE fadd(prev.totalScore, fmul(res.score, w)),
                     totalWeight |-> fadd(prev.totalWeight, w)]
                Acc[i \in 0..n] ==
                    IF i = 0 THEN [totalScore |-> Zero, totalWeight |-> Zero]
                    ELSE Step(Acc[i - 1], scores[i],
                              rubricWeight(g.rubrics[i].rewardWeights))
                Result(end) ==
                    IF fless(Zero, end.totalWeight)
                    THEN [err |-> <<>>, score |-> fdiv(end.totalScore, end.totalWeight)]
                    ELSE [err |-> <<>>, score |-> Zero]
            IN  Result(Acc[n])
    IN  machine(Float64, [i \in 1..Len(g.rubrics) |->
                             ComputeReward(g.rubrics[i], parsed, groundTruth)])

\* RubricGroup.ComputeReward over members that are not groups themselves: [err, score]
RubricGroupComputeReward(g, parsed, groundTruth) ==
    LET \* fp: the float64 operations; scores[i]: what ComputeReward of the i-th
        \* member returns
        machine(fp(_, _), scores) ==
            LET fadd(x, y) == fp("QAdd", <<x, y>>)
                fmul(x, y) == fp("QMul", <<x, y>>)
                fdiv(x, y) == fp("QDiv", <<x, y>>)
                fless(x, y) == fp("QLess", <<x, y>>)
            IN
            LET n == Len(g.rubrics)
                \* the weight of a member: the sum of its weights, 1.0 when it has none
                rubricWeight(ws) ==
                    LET S[k \in 0..Len(ws)] == IF k = 0 THEN Zero ELSE fadd(S[k - 1], ws[k])
                    IN  IF S[Len(ws)] = Zero /\ Len(ws) = 0 THEN One ELSE S[Len(ws)]
                Step(prev, res, w) ==
                    IF res.err # <<>> THEN prev
                    ELSE [totalScore |-> fadd(prev.totalScore, fmul(res.score, w)),
                          totalWeight |-> fadd(prev.totalWeight, w)]
                Acc[i \in 0..n] ==
                    IF i = 0 THEN [totalScore |-> Zero, totalWeight |-> Zero]
                    ELSE Step(Acc[i - 1], scores[i],
                              rubricWeight(g.rubrics[i].rewardWeights))
                Result(end) ==
                    IF fless(Zero, end.totalWeight)
                    THEN [err |-> <<>>, score |-> fdiv(end.totalScore, end.totalWeight)]
                    ELSE [err |-> <<>>, score |-> Zero]
            IN  Result(Acc[n])
    IN  machine(Float64, [i \in 1..Len(g.rubrics) |->
                             ComputeReward(g.rubrics[i], parsed, groundTruth)])

-----------------------------------------------------------------------------
(* Environments (pkg/envs) *)

\* types.Message
Msg(role, content) == [Role |-> role, Content |-> content]

\* the turn limit a multi-turn rollout falls back to
DefaultMaxTurns == 10

\* A types.Dataset value: the nil interface, or a SimpleDataset with its items.
\* An item is a map from keys to strings.
NilDataset == [nil |-> TRUE, data |-> <<>>]
NewSimpleDataset(data) == [nil |-> FALSE, data |-> data]

\* NewBaseEnvironment, with the fields the environments built on it add.  parser
\* and rubric are the interface fields SetParser and SetRubric write; Parser is
\* the concrete parser a tool or code environment keeps for its hooks.
NewBaseEnvironment(messageType) ==
    [kind |-> "base",
     messageType |-> IF messageType = "" THEN "chat" ELSE messageType,
     parser |-> NilParser, rubric |-> NilRubric, MaxTurns |-> 0,
     CompletionKeyword |-> <<>>, Parser |-> NilParser, Tools |-> <<>>,
     systemPrompt |-> <<>>, fewShot |-> <<>>, dataset |-> NilDataset,
     evalDataset |-> NilDataset]

\* a FormatPrompt that puts the few-shot messages after the user message
FormatPromptUserFirst(e, prompt) ==
    (IF e.systemPrompt # <<>> THEN <<Msg("system", e.systemPrompt)>> ELSE <<>>)
    \o <<Msg("user", prompt)>> \o e.fewShot

\* BaseEnvironment.FormatPrompt
FormatPrompt(e, prompt) ==
    (IF e.systemPrompt # <<>> THEN <<Msg("system", e.systemPrompt)>> ELSE <<>>)
    \o e.fewShot \o <<Msg("user", prompt)>>

NewSingleTurnEnv(messageType) ==
    [NewBaseEnvironment(messageType) EXCEPT !.kind = "single"]

\* NewMultiTurnEnv; kind "hooks" stands for an environment whose IsCompleted and
\* EnvResponse are supplied by the embedding type and may return anything
NewMultiTurnEnv(messageType, maxTurns) ==
    [NewBaseEnvironment(messageType) EXCEPT
        !.kind = "hooks",
        !.MaxTurns = IF maxTurns <= 0 THEN DefaultMaxTurns ELSE maxTurns]

NewDialogMultiTurnEnv(messageType, maxTurns, completionKeyword) ==
    [NewMultiTurnEnv(messageType, maxTurns) EXCEPT
        !.kind = "dialog",
        !.CompletionKeyword = IF completionKeyword = <<>> THEN <<"DONE">>
                              ELSE completionKeyword]

\* BaseEnvironment.SetParser, BaseEnvironment.SetRubric
SetParser(e, parser) == [e EXCEPT !.parser = parser]
SetDataset(e, dataset) == [e EXCEPT !.dataset = dataset]
SetEvalDataset(e, dataset) == [e EXCEPT !.evalDataset = dataset]

\* dataset.Shuffle(seed).Select(makeRange(n)): the first n items of the order
\* the seeded generator produced, shuffle[k] being the index of the item that
\* comes k-th
ShuffleSelect(dataset, shuffle, n) ==
    NewSimpleDataset([k \in 1..n |-> dataset.data[shuffle[k]]])

\* BaseEnvironment.GetDataset
GetDataset(e, n, shuffle) ==
    IF e.dataset.nil THEN NilDataset
    ELSE IF n > 0 /\ n < Len(e.dataset.data) THEN ShuffleSelect(e.dataset, shuffle, n)
    ELSE e.dataset
SetRubric(e, rubric) == [e EXCEPT !.rubric = rubric]

NewDoubleCheckEnv(messageType) ==
    SetRubric(SetParser([NewMultiTurnEnv(messageType, 2) EXCEPT !.kind = "doublecheck"],
                        NewXMLParser(<<<<"think">>, <<"answer">>>>, "answer")),
              NewMathRubric)

\* tools.FormatToolDescriptions: a paragraph for each tool, its name first
FormatToolDescriptions(toolList) ==
    LET \* the schema of the calculator: description, arguments, examples, returns
        desc(tool) ==
            <<tool, ": ", "Evaluate mathematical expressions. Supports basic arithmetic, trigonometry, logarithms, and more.",
              "\n", "\nArguments:",
              "\n", "  - expression: Mathematical expression to evaluate [required]",
              "\n", "\nExamples:",
              "\n", "  ", JCalc,
              "\n", "  {\"name\": \"calculate\", \"args\": {\"expression\": \"sqrt(16) + log(100)\"}}",
              "\n", "  {\"name\": \"calculate\", \"args\": {\"expression\": \"sin(pi/2) * cos(0)\"}}",
              "\n", "\nReturns: The result of the mathematical expression as a number">>
        Joined[k \in 0..Len(toolList)] ==
            IF k = 0 THEN <<>>
            ELSE IF k = 1 THEN desc(toolList[k])
            ELSE Joined[k - 1] \o <<"\n\n">> \o desc(toolList[k])
    IN  Joined[Len(toolList)]

\* strings.ReplaceAll(s, old, new) for a one-token old
ReplaceAll(s, old, new) ==
    Flatten([k \in 1..Len(s) |-> IF s[k] = old THEN new ELSE <<s[k]>>])

\* the system prompts a tool, a code or a Smola environment falls back to
DefaultToolSystemPrompt ==
    <<"You are a helpful assistant with access to tools.", "Available tools:", "\n",
      "{tool_descriptions}", "\n", "Always think before using tools or providing answers.">>
DefaultCodeMathSystemPrompt ==
    <<"You are a helpful assistant that solves math problems by writing mathematical expressions.",
      "The system will evaluate your mathematical expressions.">>
DefaultSmolaPromptTemplate ==
    <<"You are a helpful assistant that uses tools to solve problems.",
      "You have access to the following tools:", "\n", "%s", "\n",
      "Always think step-by-step before using tools or providing answers.">>

\* NewToolEnv for a configuration with the given message type and system prompt
NewToolEnv(messageType, systemPrompt, toolList, maxTurns) ==
    LET parser == NewXMLParser(<<<<"think">>, <<"tool", "answer">>>>, "answer")
        prompt == IF systemPrompt = <<>> THEN DefaultToolSystemPrompt ELSE systemPrompt
        e == [NewMultiTurnEnv(messageType, maxTurns) EXCEPT
                 !.kind = "tool", !.Tools = toolList, !.Parser = parser,
                 !.systemPrompt = ReplaceAll(prompt, "{tool_descriptions}",
                                             FormatToolDescriptions(toolList))]
    IN  SetRubric(SetParser(e, parser), NewToolRubric(toolList, parser))

NewCodeMathEnv(messageType, systemPrompt, maxTurns) ==
    LET parser == NewXMLParser(<<<<"reasoning">>, <<"code">>, <<"answer">>>>, "answer")
        e == [NewMultiTurnEnv(messageType, maxTurns) EXCEPT
                 !.kind = "codemath", !.Parser = parser,
                 !.systemPrompt = IF systemPrompt = <<>> THEN DefaultCodeMathSystemPrompt
                                  ELSE systemPrompt]
    IN  SetRubric(SetParser(e, parser), NewCodeMathRubric)

NewSmolaToolEnv(messageType, systemPrompt, toolList, maxTurns) ==
    LET parser == NewSmolaParser(<<<<"think">>, <<"tool">>, <<"answer">>>>)
        prompt == IF systemPrompt = <<>> THEN DefaultSmolaPromptTemplate ELSE systemPrompt
        e == [NewMultiTurnEnv(messageType, maxTurns) EXCEPT
                 !.kind = "smola", !.Tools = toolList, !.Parser = parser,
                 !.systemPrompt = ReplaceAll(prompt, "%s",
                                             FormatToolDescriptions(toolList))]
    IN  SetRubric(SetParser(e, parser), NewSmolaToolRubric(toolList, parser))

\* The state map of a conversation.  A key the code has not written reads as its
\* zero value: FALSE, the empty list, or <<>> for an absent number.
NewState(ans) ==
    [answer |-> ans, asked_double_check |-> FALSE, code_executions |-> <<>>,
     tool_executions |-> <<>>, tool_steps |-> <<>>]

\* CodeMathEnv.evaluateExpressions for a one-line code block: [output, success]
evaluateExpressions(code) ==
    IF code = <<"2 + 2">>
    THEN [output |-> <<"2 + 2", " = ", "4">>, success |-> TRUE]
    ELSE [output |-> <<"Error in '">> \o code \o <<"': ", "cannot evaluate">>,
          success |-> FALSE]

\* the indices of the assistant messages of a transcript
Assistants(messages) == {i \in 1..Len(messages) : messages[i].Role = "assistant"}

\* env.IsCompleted(ctx, messages, state): the set of outcomes [done, state] the
\* hook can produce (one, for every environment of the package)
IsCompleted(e, messages, st) ==
    LET only(b) == {[done |-> b, state |-> st]}
        answered(i) ==
            LET x == ParseXML(e.Parser, messages[i].Content)
            IN  x.err = <<>> /\ Field(x.Fields, "answer") # <<>>
    IN  CASE e.kind = "hooks" -> {[done |-> b, state |-> st] : b \in BOOLEAN}
          [] e.kind = "dialog" ->
                only(messages # <<>> /\
                     Contains(messages[Len(messages)].Content, e.CompletionKeyword))
          [] e.kind = "doublecheck" ->
                only(st.asked_double_check \/
                     \E i \in 1..Len(messages) :
                         /\ messages[i].Role = "user"
                         /\ Contains(ToLower(messages[i].Content), <<"are you sure">>)
                         /\ i < Len(messages)
                         /\ messages[i + 1].Role = "assistant")
          [] e.kind \in {"tool", "codemath"} ->
                only(\E i \in Assistants(messages) : answered(i))
          [] e.kind = "smola" ->
                LET users   == {i \in 1..Len(messages) : messages[i].Role = "user"}
                    counted == {i \in Assistants(messages) : \E u \in users : u < i}
                    steps   == {i \in counted :
                                   LET x == ParseXML(e.Parser, messages[i].Content)
                                   IN  x.err = <<>> /\ Field(x.Fields, "tool") # <<>>}
                IN  IF \E i \in counted : answered(i)
                    THEN only(TRUE)
                    ELSE IF messages = <<>> THEN only(FALSE)
                    ELSE {[done |-> FALSE,
                           state |-> [st EXCEPT !.tool_steps = <<Cardinality(steps)>>]]}

\* env.EnvResponse(ctx, messages, state): the set of outcomes
\* [kind, msg, state, err] the hook can produce; kind is "ok", "err" or "panic"
EnvResponse(e, messages, st) ==
    LET ok(content, st2) == {[kind |-> "ok", msg |-> Msg("user", content),
                              state |-> st2, err |-> <<>>]}
        fail(text) == {[kind |-> "err", msg |-> Msg("", <<>>), state |-> st,
                        err |-> <<text>>]}
        panic == {[kind |-> "panic", msg |-> Msg("", <<>>), state |-> st,
                   err |-> <<"interface conversion">>]}
        lastMsg == messages[Len(messages)]
        formatError(text) == <<"<result>", "\n", text, "\n", "</result>">>
        parsed == ParseXML(e.Parser, lastMsg.Content)
        toolJSON == Field(parsed.Fields, "tool")
        result == CallTool(toolJSON, e.Tools)
        resultMsg == <<"<result>", "\n">> \o result \o <<"\n", "</result>">>
    IN  IF e.kind = "hooks" THEN
                ok(<<"continue">>, st) \cup fail("environment failed")
        ELSE IF e.kind = "dialog" THEN
                ok(<<"Please continue or say '">> \o e.CompletionKeyword
                       \o <<"' when finished", ".">>, st)
        ELSE IF messages = <<>> THEN fail("no messages to process")
        ELSE IF e.kind = "doublecheck" THEN
                LET x == ParseXML(e.parser, lastMsg.Content)
                IN  IF st.asked_double_check
                    THEN fail("already asked double-check question")
                    ELSE IF lastMsg.Role # "assistant"
                    THEN fail("last message must be from assistant")
                    ELSE IF e.parser.type = "xml" /\
                            (x.err # <<>> \/ Field(x.Fields, "answer") = <<>>)
                    THEN ok(<<"Please provide your answer in the correct format with <think> and <answer> tags", ".">>, st)
                    ELSE ok(<<"Are you sure", "?", " Double-check your answer", ".">>,
                            [st EXCEPT !.asked_double_check = TRUE])
        ELSE IF lastMsg.Role # "assistant"
        THEN fail("last message must be from assistant")
        ELSE IF e.kind = "tool" THEN
                IF parsed.err # <<>>
                THEN ok(formatError("Failed to parse response. Please use the correct XML format."), st)
                ELSE IF toolJSON = <<>>
                THEN ok(formatError("No tool call found. Use <tool>{json}</tool> to call a tool."), st)
                ELSE ok(resultMsg, st)
        ELSE IF e.kind = "smola" THEN
                LET call == JSONUnmarshal(toolJSON)
                    exec == [ToolName |-> IF call.ok /\ call.name # "" THEN call.name
                                          ELSE "unknown",
                             Args     |-> call.expr,
                             Result   |-> result,
                             Success  |-> call.ok /\ ~HasPrefix(result, <<"Error:">>)]
                IN  IF parsed.err # <<>>
                    THEN ok(formatError("Failed to parse response. Please use the correct XML format."), st)
                    ELSE IF toolJSON = <<>>
                    THEN ok(formatError("No tool call found. Use <tool>{json}</tool> to call a tool."), st)
                    ELSE IF ~call.ok \/ ~call.hasArgs
                    THEN panic
                    ELSE ok(resultMsg,
                            [st EXCEPT !.tool_executions = Append(@, exec)])
        ELSE \* e.kind = "codemath"
                LET code == Field(parsed.Fields, "code")
                    run  == evaluateExpressions(code)
                    exec == [code |-> code, output |-> run.output, success |-> run.success]
                IN  IF parsed.err # <<>>
                    THEN ok(<<"Failed to parse response. Please use the correct XML format with <reasoning>, <code>, and <answer> tags.">>, st)
                    ELSE IF code = <<>>
                    THEN ok(<<"No mathematical expressions found. Please provide expressions or calculations in <code> tags.">>, st)
                    ELSE ok(<<IF run.success THEN "Evaluation results:" ELSE "Evaluation error:",
                              "\n">> \o run.output,
                            [st EXCEPT !.code_executions = Append(@, exec)])

\* the Content of the first assistant message of a transcript
FirstAssistant(messages) ==
    LET as == Assistants(messages)
    IN  IF as = {} THEN <<>>
        ELSE messages[CHOOSE i \in as : \A j \in as : i <= j].Content

\* the Content of the last assistant message of a transcript, "" when there is none
LastAssistant(messages) ==
    LET as == Assistants(messages)
    IN  IF as = {} THEN <<>>
        ELSE messages[CHOOSE i \in as : \A j \in as : j <= i].Content

\* a rollout handed back without the last message of its transcript
ReturnedWithoutLast(messages, resp, score) ==
    [kind |-> "rollout",
     Messages |-> IF messages = <<>> THEN <<>> ELSE SubSeq(messages, 1, Len(messages) - 1),
     Response |-> resp, Score |-> score, err |-> <<>>, array |-> "new"]

\* what a Rollout call hands back; array tells where the Messages slice lives: in
\* an array of its own ("new"), in the array of the caller's prompt ("prompt"),
\* or nowhere, the slice being nil ("none")
Returned(messages, resp, score) ==
    [kind |-> "rollout", Messages |-> messages, Response |-> resp, Score |-> score,
     err |-> <<>>, array |-> "new"]

\* a failure that is handed back as an empty rollout
FailedSilently(kind, err) == Returned(<<>>, <<>>, Zero)

\* what a Rollout call that fails hands back: no Rollout and an error (or a panic)
Failed(kind, err) ==
    [kind |-> kind, Messages |-> <<>>, Response |-> <<>>, Score |-> Zero, err |-> err,
     array |-> "none"]

\* The part of a concrete environment's Rollout that follows a successful
\* BaseMultiTurnRollout.  rollout is what the loop returned (Score 0.0).
\* ToolEnv.Rollout and CodeMathEnv.Rollout return it as it is.
ScoreRollout(e, rollout, ans) ==
    LET \* the rollout with the score the rubric gave; on a failure the error when
        \* the environment is strict, the unscored rollout when it is not
        Rewarded(reward, strict) ==
            IF reward.err = <<>> THEN [rollout EXCEPT !.Score = reward.score]
            ELSE IF strict
            THEN Failed("error", <<"failed to compute reward">> \o reward.err)
            ELSE rollout
        Parsed(parsed, strict) ==
            IF parsed.err # <<>>
            THEN IF strict
                 THEN Failed("error", <<"failed to parse response">> \o parsed.err)
                 ELSE rollout
            ELSE IF e.rubric.type = "nil" THEN rollout
            ELSE Rewarded(ComputeReward(e.rubric, parsed.value, ans), strict)
        Scored(text, strict) ==
            IF e.parser.type = "nil" \/ text = <<>> THEN rollout
            ELSE Parsed(ParserParse(e.parser, text), strict)
    IN  CASE e.kind \in {"dialog", "doublecheck"} ->
                \* DialogMultiTurnEnv.Rollout scores the response and is strict;
                \* DoubleCheckEnv.Rollout scores the last assistant message and is not
                Scored(IF e.kind = "dialog" THEN rollout.Response
                       ELSE LastAssistant(rollout.Messages), e.kind = "dialog")
          [] e.kind = "smola" ->
                IF e.rubric.type = "smola"
                THEN Rewarded(ComputeReward(e.rubric, rollout.Response, ans), FALSE)
                ELSE rollout
          [] OTHER -> rollout

\* a split at the last colon
parseTaskAnswerAtLastColon(g, ans) ==
    LET colons == {i \in 1..Len(ans) : ans[i] = ":"}
        last   == CHOOSE i \in colons : \A j \in colons : j <= i
    IN  IF colons # {} THEN <<SubSeq(ans, 1, last - 1), SubSeq(ans, last + 1, Len(ans))>>
        ELSE IF Len(g.envNames) > 0 THEN <<g.envNames[1], ans>>
        ELSE <<<<>>, ans>>

\* EnvGroup.parseTaskAnswer: <<task, answer>>
parseTaskAnswer(g, ans) ==
    LET i == Index(ans, <<":">>)
    IN  IF i > 0 THEN <<SubSeq(ans, 1, i - 1), SubSeq(ans, i + 1, Len(ans))>>
        ELSE IF Len(g.envNames) > 0 THEN <<g.envNames[1], ans>>
        ELSE <<<<>>, ans>>

\* NewEnvGroup: envs maps a task name to an environment; envNames lists the keys
\* in the order the map iteration produced them
NewEnvGroup(envs, envNames) == [envs |-> envs, envNames |-> envNames]

\* the function EnvGroup.GetDataset maps over a sub-environment's dataset: a
\* copy of the item with the task name and a colon in front of its answer (the
\* values of the items here are strings; an item without an answer gets none)
\* and the task name under "task"
LabelItem(item, envName) ==
    [k \in DOMAIN item \cup {"task"} |->
        IF k = "task" THEN envName
        ELSE IF k = "answer" THEN envName \o <<":">> \o item[k]
        ELSE item[k]]

\* EnvGroup.GetDataset: the labelled datasets of the sub-environments that have
\* one, in the order of envNames, sampled when 0 < n < the combined length
EnvGroupGetDataset(g, n, shuffle) ==
    LET labeled(name) ==
            LET dataset == GetDataset(g.envs[name], -1, <<>>)
            IN  [nil |-> dataset.nil,
                 data |-> [k \in 1..Len(dataset.data) |->
                              LabelItem(dataset.data[k], name)]]
        datasets == SelectSeq([i \in 1..Len(g.envNames) |-> labeled(g.envNames[i])],
                              LAMBDA d : ~d.nil)
        Concatenate[i \in 0..Len(datasets)] ==
            IF i = 0 THEN <<>> ELSE Concatenate[i - 1] \o datasets[i].data
        combined == NewSimpleDataset(Concatenate[Len(datasets)])
    IN  IF Len(datasets) = 0 THEN NilDataset
        ELSE IF n > 0 /\ n < Len(combined.data) THEN ShuffleSelect(combined, shuffle, n)
        ELSE combined

\* EnvGroup.GetRewardFuncs: for every name of envNames, in order, the reward
\* functions of that environment's rubric, each as the closure wrapRewardFunc
\* makes of it
EnvGroupGetRewardFuncs(g) ==
    LET closures(name) ==
            [k \in 1..Len(g.envs[name].rubric.rewardFuncs) |->
                [name |-> "wrapped", group |-> g, envName |-> name,
                 fn |-> g.envs[name].rubric.rewardFuncs[k]]]
        All[i \in 0..Len(g.envNames)] ==
            IF i = 0 THEN <<>> ELSE All[i - 1] \o closures(g.envNames[i])
    IN  All[Len(g.envNames)]

\* a wrapper that hands the owner's function the ground truth with its prefix
wrapRewardFuncKeepsPrefix(w, parsed, groundTruth) ==
    IF parseTaskAnswer(w.group, groundTruth)[1] # w.envName THEN Reward(Zero)
    ELSE RewardFunc(w.fn, parsed, groundTruth)

\* the function wrapRewardFunc returns, applied to its arguments
wrapRewardFunc(w, parsed, groundTruth) ==
    LET pair == parseTaskAnswer(w.group, groundTruth)
    IN  IF pair[1] # w.envName THEN Reward(Zero)
        ELSE RewardFunc(w.fn, parsed, pair[2])

-----------------------------------------------------------------------------
(* The calls explored *)

\* number of model calls whose text is chosen freely; a later call repeats the
\* text of the call before it
MaxFreeCalls == 2

\* largest turn limit passed explicitly; limits range over -1..MaxTurnsArg
MaxTurnsArg == 3

\* texts an inference client returns
Text ==
    [plain  |-> <<" ", "4", "\n">>,
     wrong  |-> <<"5">>,
     done   |-> <<"4", " ", "DONE">>,
     error  |-> <<"[ERROR]", " rate limited">>,
     ans4   |-> <<"<think>", "x", "</think>", "\n", "<answer>", " ", "4", "</answer>">>,
     ans5   |-> <<"<answer>", "5", "</answer>">>,
     tool   |-> <<"<think>", "x", "</think>", "<tool>", JCalc, "</tool>">>,
     badtool |-> <<"<tool>", JBad, "</tool>">>,
     noargs |-> <<"<tool>", JNoArgs, "</tool>">>,
     noname |-> <<"<tool>", JNoName, "</tool>">>,
     unknown |-> <<"<tool>", JUnknown, "</tool>">>,
     code   |-> <<"<reasoning>", "x", "</reasoning>", "<code>", "2 + 2", "</code>">>,
     codeans |-> <<"<code>", "2 + 2", "</code>", "<answer>", "4", "</answer>">>]

\* prompts a caller passes: a message list that fills its array, the same list
\* in an array with room for one more message (cap is the capacity of the slice),
\* a system and a user message, what FormatPrompt returns on an environment
\* with a worked example as few-shot messages (three messages in an array that
\* append has grown to four), an empty message list, a string
Prompts ==
    {[type |-> "messages", messages |-> <<Msg("user", <<"2+2", "?">>)>>, text |-> <<>>,
      cap |-> 1],
     [type |-> "messages",
      messages |-> <<Msg("system", <<"Be brief">>), Msg("user", <<"2+2", "?">>)>>,
      text |-> <<>>, cap |-> 2],
     [type |-> "messages",
      messages |-> FormatPrompt([NewBaseEnvironment("") EXCEPT
                                    !.fewShot = <<Msg("user", <<"1+1", "?">>),
                                                  Msg("assistant", Text.ans5)>>],
                                <<"2+2", "?">>),
      text |-> <<>>, cap |-> 4],
     [type |-> "messages", messages |-> <<Msg("user", <<"2+2", "?">>)>>, text |-> <<>>,
      cap |-> 2],
     [type |-> "messages", messages |-> <<>>, text |-> <<>>, cap |-> 0],
     [type |-> "string", messages |-> <<>>, text |-> <<"2+2", "?">>, cap |-> 0]}

\* parser and rubric pairs an environment is configured with through SetParser
\* and SetRubric; the parser with the field "f(" fails on every text, the judge
\* rubric whose client is down fails on every response
Scorers ==
    LET down == [err |-> <<"connection refused">>, text |-> <<>>]
    IN  {<<NilParser, NilRubric>>,
         <<NewBaseParser, NilRubric>>,
         <<NewBaseParser, NewBaseRubric>>,
         <<NewXMLParser(<<<<"think">>, <<"answer">>>>, "answer"), NewMathRubric>>,
         <<NewXMLParser(<<<<"f(">>>>, "f("), NewBaseRubric>>,
         <<NewBaseParser, NewJudgeRubric(down)>>}

NoGroup == NewEnvGroup(<<>>, <<>>)

\* the calls of one environment family: every environment with every prompt and
\* answer, against a client that answers with the given texts
Calls(envs, answers, texts) ==
    {[env |-> e, group |-> NoGroup,
      req |-> [target |-> "env", prompt |-> p, answer |-> a, texts |-> texts]] :
        e \in envs, p \in Prompts, a \in answers}

Scenarios ==
    LET with(e, sc) == SetRubric(SetParser(e, sc[1]), sc[2])
        limits == -1..MaxTurnsArg
        single == {with(NewSingleTurnEnv(mt), sc) :
                      mt \in {"", "completion", "rpc"}, sc \in Scorers}
        hooks  == {NewMultiTurnEnv("", m) : m \in limits}
                  \cup {[NewMultiTurnEnv("", m) EXCEPT !.MaxTurns = m] : m \in limits}
        dialog == {with(NewDialogMultiTurnEnv("", m, <<>>), sc) :
                      m \in {0, 2}, sc \in Scorers}
        double == {NewDoubleCheckEnv("")}
                  \cup {with(NewDoubleCheckEnv(""), sc) : sc \in Scorers}
        tool   == {NewToolEnv("", <<>>, ToolList, m) : m \in {2, MaxTurnsArg}}
        smola  == {NewSmolaToolEnv("", <<>>, ToolList, m) : m \in {2, MaxTurnsArg}}
                  \cup {with(NewSmolaToolEnv("", <<>>, ToolList, 2), sc) : sc \in Scorers}
        code   == {NewCodeMathEnv("", <<>>, m) : m \in {2, MaxTurnsArg}}
        sub    == [t \in {<<"math">>, <<"chat">>} |->
                      IF t = <<"math">>
                      THEN SetRubric(SetParser(NewSingleTurnEnv(""), NewBaseParser),
                                     NewBaseRubric)
                      ELSE NewDialogMultiTurnEnv("", 2, <<>>)]
        groups == {NoGroup, NewEnvGroup(sub, <<<<"math">>, <<"chat">>>>),
                   NewEnvGroup(sub, <<<<"chat">>, <<"math">>>>)}
        \* sub-environments that carry datasets, registered under names without
        \* and with a colon
        data   == {NilDataset, NewSimpleDataset(<<>>),
                   NewSimpleDataset(<<[question |-> <<"2+2", "?">>, answer |-> <<"4">>]>>),
                   NewSimpleDataset(<<[question |-> <<"ratio", "?">>,
                                       answer |-> <<"1", ":", "2">>],
                                      [question |-> <<"free", "?">>]>>)}
        named  == {<<<<"math">>, <<"chat">>>>, <<<<"math">>, <<"math", ":", "v2">>>>,
                   <<<<"math", ":", "v2">>, <<"math">>>>, <<<<"a", ":", "b">>, <<>>>>}
        owners == {NewEnvGroup([t \in {names[1], names[2]} |->
                                   SetDataset(sub[<<"math">>],
                                              IF t = names[1] THEN d[1] ELSE d[2])],
                               names) :
                      names \in named, d \in data \X data}
        routed == {<<"math", ":", "1", "0", "0">>, <<"math", ":", "1", ":", "2">>,
                   <<"chat", ":", "4">>, <<"code", ":", "4">>, <<":", "4">>,
                   <<"1", "0", "0">>}
    IN  Calls(single, {<<"4">>, <<"4", " ">>}, {Text.plain, Text.wrong, Text.ans4})
        \cup Calls(hooks, {<<"4">>}, {Text.plain, Text.error})
        \cup Calls(dialog, {<<"4">>}, {Text.plain, Text.done, Text.error})
        \cup Calls(double, {<<"4">>, <<"\\boxed{", "4", "}">>},
                   {Text.plain, Text.ans4, Text.ans5, Text.error})
        \cup Calls(tool, {<<"4">>}, {Text.plain, Text.ans4, Text.tool, Text.badtool,
                                    Text.noargs, Text.noname, Text.unknown})
        \cup Calls(smola, {<<"4">>}, {Text.plain, Text.ans4, Text.tool, Text.noargs,
                                     Text.badtool})
        \cup Calls(code, {<<"4">>}, {Text.plain, Text.ans4, Text.code})
        \cup {[env |-> NewBaseEnvironment(""), group |-> g,
               req |-> [target |-> "group", prompt |-> p, answer |-> a,
                        texts |-> {<<"1", "0", "0">>, Text.done}]] :
                 g \in groups, p \in Prompts, a \in routed}
        \cup {[env |-> NewBaseEnvironment(""), group |-> g,
               req |-> [target |-> "dataset",
                        prompt |-> [type |-> "messages",
                                    messages |-> <<Msg("user", <<"2+2", "?">>)>>,
                                    text |-> <<>>, cap |-> 1],
                        answer |-> <<>>, texts |-> {<<"4">>}, n |-> n,
                        dataset |-> NilDataset, item |-> <<>>]] :
                 g \in owners, n \in {-1, 1, 2}}

-----------------------------------------------------------------------------
(* One rollout call *)

\* no BatchProcessor call is in progress
BatchIdle ==
    /\ batch = [method |-> "none", items |-> <<>>, arg |-> 0, maxConcurrent |-> 0]
    /\ spawned = 0 /\ sem = 0 /\ mu = 0
    /\ wpc = <<>> /\ results = <<>> /\ produced = <<>>
    /\ cancelled = FALSE /\ completed = 0 /\ progressCalls = <<>>
    /\ returned = FALSE
    /\ mapped = [output |-> <<>>, err |-> <<>>]

\* no Retry call is in progress
RetryIdle == retry = [pc |-> "idle"]

\* no call of its own on a rubric or a parser is in progress, and no
\* concurrent calls on one environment
ScoringIdle == scoring = [pc |-> "idle"] /\ shared = [kind |-> "none"]

\* the position at which the Rollout of an environment starts
Entry(e) == IF e.kind = "single" THEN "single" ELSE "multi"

\* the locals of a rollout that has not assigned them yet
NoRet == [kind |-> "none", Messages |-> <<>>, Response |-> <<>>, Score |-> Zero,
          err |-> <<>>, array |-> "none"]

Init ==
    /\ \E sc \in Scenarios :
          /\ req = sc.req
          /\ group = sc.group
          /\ env = sc.env
          /\ pc = CASE sc.req.target = "group" -> "group"
                    [] sc.req.target = "dataset" -> "dataset"
                    [] OTHER -> Entry(sc.env)
          /\ answer = sc.req.answer
    /\ workingMessages = <<>> /\ completion = <<>>
    /\ state = NewState(<<>>)
    /\ turn = 0 /\ hasError = FALSE /\ response = <<>>
    /\ clientCalls = <<>> /\ hookCalls = 0 /\ delegated = <<>>
    /\ ret = NoRet
    /\ BatchIdle
    /\ RetryIdle
    /\ ScoringIdle

\* what a call of the inference client can return: [err, text]
ClientReturns ==
    {[err |-> <<"connection refused">>, text |-> <<>>]}
    \cup IF Len(clientCalls) < MaxFreeCalls
         THEN {[err |-> <<>>, text |-> t] : t \in req.texts}
         ELSE {[err |-> <<>>, text |-> response]}

\* the orders a shuffle of n items can produce
Shuffles(n) == {f \in [1..n -> 1..n] : \A i, j \in 1..n : f[i] = f[j] => i = j}

\* A caller takes the group's dataset with EnvGroup.GetDataset(n, seed) and
\* passes the answer of one of its items to EnvGroup.Rollout; with a nil or
\* empty dataset, or an item without an answer, it makes no call.
GroupGetDataset ==
    /\ pc = "dataset"
    /\ LET total == Len(EnvGroupGetDataset(group, -1, <<>>).data)
       IN  \E shuffle \in Shuffles(total) :
              LET dataset == EnvGroupGetDataset(group, req.n, shuffle)
              IN  \/ /\ \E i \in 1..Len(dataset.data) :
                           /\ "answer" \in DOMAIN dataset.data[i]
                           /\ req' = [req EXCEPT !.dataset = dataset,
                                                 !.item = dataset.data[i],
                                                 !.answer = dataset.data[i]["answer"]]
                           /\ answer' = dataset.data[i]["answer"]
                     /\ pc' = "group"
                  \/ /\ \A i \in 1..Len(dataset.data) :
                           "answer" \notin DOMAIN dataset.data[i]
                     /\ req' = [req EXCEPT !.dataset = dataset]
                     /\ pc' = "no item"
                     /\ UNCHANGED answer
    /\ UNCHANGED <<group, env, workingMessages, completion, state, turn, hasError,
                   response, clientCalls, hookCalls, delegated, ret, batchVars>>

\* EnvGroup.Rollout up to the call of the sub-environment's Rollout
GroupRollout ==
    /\ pc = "group"
    /\ LET pair == parseTaskAnswer(group, answer)
           task == pair[1]
       IN  IF task \notin DOMAIN group.envs
           THEN /\ ret' = Failed("error", <<"unknown task: ">> \o task)
                /\ pc' = "done"
                /\ UNCHANGED <<env, answer, delegated>>
           ELSE /\ env' = group.envs[task]
                /\ answer' = pair[2]
                /\ delegated' = Append(delegated, [task |-> task, answer |-> pair[2]])
                /\ pc' = Entry(group.envs[task])
                /\ ret' = ret
    /\ UNCHANGED <<req, group, workingMessages, completion, state, turn, hasError,
                   response, clientCalls, hookCalls, batchVars>>

\* SingleTurnEnv.Rollout, with the GetModelResponse it calls
SingleTurnRollout ==
    /\ pc = "single"
    /\ pc' = "done"
    /\ LET method == IF env.messageType = "chat" THEN "chat" ELSE "completion"
           wanted == IF env.messageType = "chat" THEN "messages" ELSE "string"
       IN  IF env.messageType \notin {"chat", "completion"}
           THEN /\ ret' = Failed("error", <<"failed to get model response",
                                           "unknown message type">>)
                /\ UNCHANGED <<response, clientCalls>>
           ELSE IF req.prompt.type # wanted
           THEN /\ ret' = Failed("error", <<"failed to get model response",
                                           "expected " \o wanted>>)
                /\ UNCHANGED <<response, clientCalls>>
           ELSE \E out \in ClientReturns :
                   LET Rewarded(reward) ==
                           IF reward.err # <<>>
                           THEN Failed("error", <<"failed to compute reward">>
                                                \o reward.err)
                           ELSE IF env.messageType = "chat"
                           THEN \* append(messages, ...) allocates only when the
                                \* caller's slice has no spare capacity
                                [Returned(Append(req.prompt.messages,
                                                 Msg("assistant", out.text)),
                                          out.text, reward.score)
                                   EXCEPT !.array =
                                      IF req.prompt.cap > Len(req.prompt.messages)
                                      THEN "prompt" ELSE "new"]
                           ELSE [Returned(<<>>, out.text, reward.score)
                                   EXCEPT !.array = "none"]
                       Parsed(parsed) ==
                           IF parsed.err # <<>>
                           THEN Failed("error", <<"failed to parse response">>
                                                \o parsed.err)
                           ELSE Rewarded(IF env.rubric.type = "nil"
                                         THEN [err |-> <<>>, score |-> Zero]
                                         ELSE ComputeReward(env.rubric, parsed.value,
                                                            answer))
                   IN  /\ clientCalls' = Append(clientCalls, [method |-> method,
                                                err |-> out.err, text |-> out.text])
                       /\ response' = out.text
                       /\ ret' = IF out.err # <<>>
                                 THEN Failed("error", <<"failed to get model response">>
                                                      \o out.err)
                                 ELSE Parsed(IF env.parser.type = "nil"
                                             THEN [err |-> <<>>, value |-> out.text]
                                             ELSE ParserParse(env.parser, out.text))
    /\ UNCHANGED <<req, group, env, answer, workingMessages, completion, state, turn,
                   hasError, hookCalls, delegated, batchVars>>

\* a loop that runs one turn more than its limit
maxTurnsPlusOne == (IF env.MaxTurns <= 0 THEN DefaultMaxTurns ELSE env.MaxTurns) + 1

\* BaseMultiTurnRollout: the local maxTurns after its default is applied
maxTurns == IF env.MaxTurns <= 0 THEN DefaultMaxTurns ELSE env.MaxTurns

\* BaseMultiTurnRollout, from its entry to the head of the loop
MultiTurnBegin ==
    /\ pc = "multi"
    /\ IF req.prompt.type # "messages"
       THEN /\ ret' = Failed("error", <<"multi-turn environment requires []types.Message prompt">>)
            /\ pc' = "done"
            /\ UNCHANGED <<workingMessages, completion, state, turn>>
       ELSE /\ workingMessages' = req.prompt.messages
            /\ state' = NewState(answer)
            /\ completion' = <<>>
            /\ turn' = 0
            /\ pc' = "loop"
            /\ ret' = ret
    /\ UNCHANGED <<req, group, env, answer, hasError, response, clientCalls,
                   hookCalls, delegated, batchVars>>

\* the loop condition and the IsCompleted check at the top of the body
LoopHead ==
    /\ pc = "loop"
    /\ IF turn < maxTurns
       THEN \E c \in IsCompleted(env, workingMessages, state) :
               /\ state' = c.state
               /\ pc' = IF c.done THEN "return" ELSE "call"
       ELSE /\ pc' = "return"
            /\ state' = state
    /\ UNCHANGED <<req, group, env, answer, workingMessages, completion, turn,
                   hasError, response, clientCalls, hookCalls, delegated, ret,
                   batchVars>>

\* the model call of a turn, the append of the assistant message and the
\* completion conditions checked after it
ModelTurn ==
    /\ pc = "call"
    /\ \E out \in ClientReturns :
          /\ clientCalls' = Append(clientCalls, [method |-> "chat", err |-> out.err,
                                                 text |-> out.text])
          /\ IF out.err # <<>>
             THEN /\ ret' = Failed("error", <<"failed to get model response at turn ",
                                             ToString(turn), ": ">> \o out.err)
                  /\ pc' = "done"
                  /\ UNCHANGED <<workingMessages, completion, state, turn, hasError,
                                 response>>
             ELSE LET assistantMsg == Msg("assistant", out.text)
                      prefixed == HasPrefix(out.text, <<"[ERROR]">>)
                  IN  /\ response' = out.text
                      /\ hasError' = prefixed
                      /\ workingMessages' = Append(workingMessages, assistantMsg)
                      /\ completion' = Append(completion, assistantMsg)
                      /\ turn' = turn + 1
                      /\ \E c \in IsCompleted(env, Append(workingMessages, assistantMsg),
                                              state) :
                            /\ state' = c.state
                            /\ pc' = IF c.done \/ turn + 1 >= maxTurns \/ prefixed
                                     THEN "return" ELSE "respond"
                      /\ ret' = ret
    /\ UNCHANGED <<req, group, env, answer, hookCalls, delegated, batchVars>>

\* the EnvResponse call of a turn and the append of the environment message
EnvTurn ==
    /\ pc = "respond"
    /\ hookCalls' = hookCalls + 1
    /\ \E r \in EnvResponse(env, workingMessages, state) :
          IF r.kind = "ok"
          THEN /\ state' = r.state
               /\ workingMessages' = Append(workingMessages, r.msg)
               /\ completion' = Append(completion, r.msg)
               /\ pc' = "loop"
               /\ ret' = ret
          ELSE /\ ret' = IF r.kind = "panic" THEN Failed("panic", r.err)
                         ELSE Failed("error",
                                     <<"failed to get environment response at turn ",
                                       ToString(turn), ": ">> \o r.err)
               /\ pc' = "done"
               /\ UNCHANGED <<state, workingMessages, completion>>
    /\ UNCHANGED <<req, group, env, answer, turn, hasError, response, clientCalls,
                   delegated, batchVars>>

\* the end of BaseMultiTurnRollout: the rollout it returns to the environment's
\* Rollout
LoopReturn ==
    /\ pc = "return"
    /\ ret' = Returned(workingMessages, LastAssistant(completion), Zero)
    /\ pc' = "score"
    /\ UNCHANGED <<req, group, env, answer, workingMessages, completion, state, turn,
                   hasError, response, clientCalls, hookCalls, delegated, batchVars>>

\* the environment's Rollout after BaseMultiTurnRollout has returned a rollout
ScoreStep ==
    /\ pc = "score"
    /\ ret' = ScoreRollout(env, ret, answer)
    /\ pc' = "done"
    /\ UNCHANGED <<req, group, env, answer, workingMessages, completion, state, turn,
                   hasError, response, clientCalls, hookCalls, delegated, batchVars>>

\* After the call the caller overwrites one message of the transcript it was
\* handed.  A transcript that lives in the array of the caller's prompt shares
\* its leading messages with the prompt, so the write shows in both.
CallerEdit ==
    /\ pc = "done"
    /\ ret.kind = "rollout"
    /\ \E i \in 1..Len(ret.Messages) :
          /\ ret' = [ret EXCEPT !.Messages[i].Content = <<"edited">>]
          /\ req' = IF ret.array = "prompt" /\ i <= Len(req.prompt.messages)
                    THEN [req EXCEPT !.prompt.messages[i].Content = <<"edited">>]
                    ELSE req
    /\ pc' = "edited"
    /\ UNCHANGED <<group, env, answer, workingMessages, completion, state, turn,
                   hasError, response, clientCalls, hookCalls, delegated, batchVars>>

Next ==
    \/ GroupGetDataset
    \/ GroupRollout
    \/ SingleTurnRollout
    \/ MultiTurnBegin
    \/ LoopHead
    \/ ModelTurn
    \/ EnvTurn
    \/ LoopReturn
    \/ ScoreStep
    \/ CallerEdit

Spec == Init /\ [][Next]_vars

-----------------------------------------------------------------------------
(* One BatchProcessor call (pkg/utils) *)

\* the concurrency limit NewBatchProcessor falls back to
DefaultBatchConcurrent == 10

\* largest number of items in a batch
MaxItems == 3

\* largest maxConcurrent passed explicitly; arguments range over -1..MaxConcurrentArg
MaxConcurrentArg == 2

\* a processor that ignores the limit it is given
NewBatchProcessorUnlimited(maxConcurrent) == DefaultBatchConcurrent

\* NewBatchProcessor: the maxConcurrent field of the processor
NewBatchProcessor(maxConcurrent) ==
    IF maxConcurrent <= 0 THEN DefaultBatchConcurrent ELSE maxConcurrent

\* a result that is labelled with the index of the item before it
ProcessResultShifted(index, result, err) ==
    [Index |-> IF index > 0 THEN index - 1 ELSE 0, Result |-> result, Error |-> err]

\* ProcessResult
ProcessResult(index, result, err) == [Index |-> index, Result |-> result, Error |-> err]

\* what the caller's processor function can return for an item
ProcessorReturns(item) ==
    {[Result |-> <<"done", item>>, Error |-> <<>>],
     [Result |-> <<>>, Error |-> <<"failed", item>>]}

\* no rollout call is in progress
RolloutIdle ==
    /\ req = [target |-> "none", prompt |-> <<>>, answer |-> <<>>, texts |-> {}]
    /\ group = NoGroup
    /\ env = NewBaseEnvironment("")
    /\ pc = "idle"
    /\ answer = <<>>
    /\ workingMessages = <<>> /\ completion = <<>>
    /\ state = NewState(<<>>)
    /\ turn = 0 /\ hasError = FALSE /\ response = <<>>
    /\ clientCalls = <<>> /\ hookCalls = 0 /\ delegated = <<>>
    /\ ret = NoRet

\* Process or ProcessWithProgress has allocated results and is about to start the
\* goroutines; the context may already be cancelled
InitBatch ==
    /\ \E method \in {"Process", "ProcessWithProgress", "ParallelMap"},
          n \in 0..MaxItems,
          arg \in -1..MaxConcurrentArg :
          /\ batch = [method |-> method,
                      items |-> [i \in 1..n |-> <<"item", ToString(i)>>],
                      arg |-> arg,
                      maxConcurrent |-> NewBatchProcessor(arg)]
          /\ wpc = [i \in 1..n |-> "unborn"]
          /\ results = [i \in 1..n |-> ProcessResult(0, <<>>, <<>>)]
          /\ produced = [i \in 1..n |-> <<>>]
    /\ spawned = 0 /\ sem = 0 /\ mu = 0
    /\ cancelled \in BOOLEAN
    /\ completed = 0 /\ progressCalls = <<>>
    /\ returned = FALSE
    /\ mapped = [output |-> <<>>, err |-> <<>>]
    /\ RolloutIdle
    /\ RetryIdle
    /\ ScoringIdle

\* the dispatch loop starts the goroutine of the next item
Spawn ==
    /\ spawned < Len(batch.items)
    /\ spawned' = spawned + 1
    /\ wpc' = [wpc EXCEPT ![spawned + 1] = "select"]
    /\ UNCHANGED <<rolloutVars, retry, mapped, scoring, shared, batch, sem, mu, results, produced, cancelled,
                   completed, progressCalls, returned>>

\* select: the send on the semaphore channel proceeds; the processor is invoked
Acquire(i) ==
    /\ wpc[i] = "select"
    /\ sem < batch.maxConcurrent
    /\ sem' = sem + 1
    /\ wpc' = [wpc EXCEPT ![i] = "run"]
    /\ UNCHANGED <<rolloutVars, retry, mapped, scoring, shared, batch, spawned, mu, results, produced, cancelled,
                   completed, progressCalls, returned>>

\* select: the receive from ctx.Done() proceeds; the slot gets the context's error
Abandon(i) ==
    /\ wpc[i] = "select"
    /\ cancelled
    /\ results' = [results EXCEPT ![i] = ProcessResult(i - 1, <<>>, <<"context canceled">>)]
    /\ wpc' = [wpc EXCEPT ![i] = IF batch.method = "ProcessWithProgress"
                                 THEN "lock, no slot" ELSE "done"]
    /\ UNCHANGED <<rolloutVars, retry, mapped, scoring, shared, batch, spawned, sem, mu, produced, cancelled,
                   completed, progressCalls, returned>>

\* the processor returns and the worker stores what it returned
Finish(i) ==
    /\ wpc[i] = "run"
    /\ \E out \in ProcessorReturns(batch.items[i]) :
          /\ produced' = [produced EXCEPT ![i] = <<out>>]
          /\ results' = [results EXCEPT ![i] = ProcessResult(i - 1, out.Result, out.Error)]
    /\ wpc' = [wpc EXCEPT ![i] = IF batch.method = "ProcessWithProgress"
                                 THEN "lock" ELSE "release"]
    /\ UNCHANGED <<rolloutVars, retry, mapped, scoring, shared, batch, spawned, sem, mu, cancelled, completed,
                   progressCalls, returned>>

\* a lock that is taken without waiting for its holder
LockUnguarded(i) ==
    /\ wpc[i] \in {"lock", "lock, no slot"}
    /\ mu' = i
    /\ wpc' = [wpc EXCEPT ![i] = IF wpc[i] = "lock" THEN "report" ELSE "report, no slot"]
    /\ UNCHANGED <<rolloutVars, retry, mapped, scoring, shared, batch, spawned, sem, results, produced, cancelled,
                   completed, progressCalls, returned>>

\* ProcessWithProgress: mu.Lock()
Lock(i) ==
    /\ wpc[i] \in {"lock", "lock, no slot"}
    /\ mu = 0
    /\ mu' = i
    /\ wpc' = [wpc EXCEPT ![i] = IF wpc[i] = "lock" THEN "report" ELSE "report, no slot"]
    /\ UNCHANGED <<rolloutVars, retry, mapped, scoring, shared, batch, spawned, sem, results, produced, cancelled,
                   completed, progressCalls, returned>>

\* ProcessWithProgress: completed++, the progress callback, mu.Unlock()
Report(i) ==
    /\ wpc[i] \in {"report", "report, no slot"}
    /\ completed' = completed + 1
    /\ progressCalls' = Append(progressCalls, <<completed + 1, Len(batch.items)>>)
    /\ mu' = 0
    /\ wpc' = [wpc EXCEPT ![i] = IF wpc[i] = "report" THEN "release" ELSE "done"]
    /\ UNCHANGED <<rolloutVars, retry, mapped, scoring, shared, batch, spawned, sem, results, produced, cancelled,
                   returned>>

\* a worker that ends without giving its slot back
ReleaseKeepsSlot(i) ==
    /\ wpc[i] = "release"
    /\ wpc' = [wpc EXCEPT ![i] = "done"]
    /\ UNCHANGED <<rolloutVars, retry, mapped, scoring, shared, batch, spawned, sem, mu, results,
                   produced, cancelled, completed, progressCalls, returned>>

\* the deferred calls of a worker that holds a slot: cancel(), <-sem, wg.Done()
Release(i) ==
    /\ wpc[i] = "release"
    /\ sem' = sem - 1
    /\ wpc' = [wpc EXCEPT ![i] = "done"]
    /\ UNCHANGED <<rolloutVars, retry, mapped, scoring, shared, batch, spawned, mu, results, produced, cancelled,
                   completed, progressCalls, returned>>

\* the caller's context is cancelled
Cancel ==
    /\ ~cancelled
    /\ ~returned
    /\ cancelled' = TRUE
    /\ UNCHANGED <<rolloutVars, retry, mapped, scoring, shared, batch, spawned, sem, mu, wpc, results, produced,
                   completed, progressCalls, returned>>

\* an aggregate that reports the last failure instead of the first
ParallelMapLastError(res) ==
    LET bad == {i \in 1..Len(res) : res[i].Error # <<>>}
        i   == CHOOSE k \in bad : \A j \in bad : j <= k
    IN  IF bad = {} THEN [output |-> [k \in 1..Len(res) |-> res[k].Result], err |-> <<>>]
        ELSE [output |-> <<>>,
              err |-> <<"error processing item ", ToString(res[i].Index), ": ">>
                      \o res[i].Error]

\* ParallelMap after Process has returned res: the first entry with an error
\* ends the extraction; otherwise each result is stored at its entry's Index
ParallelMap(res) ==
    LET bad == {i \in 1..Len(res) : res[i].Error # <<>>}
        i   == CHOOSE k \in bad : \A j \in bad : k <= j
        at(k) == {j \in 1..Len(res) : res[j].Index = k - 1}
    IN  IF bad = {}
        THEN [output |-> [k \in 1..Len(res) |->
                             IF at(k) = {} THEN <<>>
                             ELSE res[CHOOSE j \in at(k) : \A h \in at(k) : h <= j].Result],
              err |-> <<>>]
        ELSE [output |-> <<>>,
              err |-> <<"error processing item ", ToString(res[i].Index), ": ">>
                      \o res[i].Error]

\* wg.Wait() returns and the call returns results; ParallelMap goes on to
\* extract its output from them
BatchReturn ==
    /\ ~returned
    /\ spawned = Len(batch.items)
    /\ \A i \in 1..Len(batch.items) : wpc[i] = "done"
    /\ returned' = TRUE
    /\ mapped' = IF batch.method = "ParallelMap" THEN ParallelMap(results) ELSE mapped
    /\ UNCHANGED <<rolloutVars, retry, scoring, shared, batch, spawned, sem, mu, wpc, results, produced,
                   cancelled, completed, progressCalls>>

NextBatch ==
    \/ Spawn
    \/ \E i \in 1..Len(batch.items) : Acquire(i)
    \/ \E i \in 1..Len(batch.items) : Abandon(i)
    \/ \E i \in 1..Len(batch.items) : Finish(i)
    \/ \E i \in 1..Len(batch.items) : Lock(i)
    \/ \E i \in 1..Len(batch.items) : Report(i)
    \/ \E i \in 1..Len(batch.items) : Release(i)
    \/ Cancel
    \/ BatchReturn

SpecBatch == InitBatch /\ [][NextBatch]_vars

\* The goroutines of a call are scheduled by the Go runtime: a goroutine that
\* can take a step is not left waiting forever, and a processor that was
\* invoked returns.  Cancelling the context is up to the caller and is not
\* required to happen.
SpecBatchFair ==
    SpecBatch /\ WF_vars(Spawn) /\ WF_vars(BatchReturn)
    /\ \A i \in 1..MaxItems :
          /\ WF_vars(i <= Len(batch.items) /\ (Acquire(i) \/ Abandon(i)))
          /\ WF_vars(i <= Len(batch.items) /\ Finish(i))
          /\ WF_vars(i <= Len(batch.items) /\ Lock(i))
          /\ WF_vars(i <= Len(batch.items) /\ Report(i))
          /\ WF_vars(i <= Len(batch.items) /\ Release(i))

\* ---- Retry (pkg/utils) ----
\* Bounds of the arguments
MaxRetriesArg == 2
MaxInitialDelay == 2

\* A call Retry(ctx, maxRetries, initialDelay, fn) about to run.  ctxDone is
\* ctx.Err() != nil; cancelledAt, calls, outs and waits are history: when the
\* context was cancelled, ctxDone at each invocation of fn, what fn returned,
\* and the delays that were waited out.
InitRetry ==
    /\ RolloutIdle
    /\ BatchIdle
    /\ ScoringIdle
    /\ \E n \in -1..MaxRetriesArg, d \in 0..MaxInitialDelay, c \in BOOLEAN :
          retry = [pc |-> "start", maxRetries |-> n, initialDelay |-> d,
                   i |-> 0, delay |-> d, result |-> <<>>, err |-> <<>>,
                   ctxDone |-> c, cancelledAt |-> IF c THEN "before" ELSE "never",
                   calls |-> <<>>, outs |-> <<>>, waits |-> <<>>,
                   ret |-> [result |-> <<>>, err |-> <<>>]]

\* the head of the loop: fn is invoked while i <= maxRetries; otherwise the
\* loop is left and fmt.Errorf wraps the last error with %w, which prints a
\* nil operand (no attempt was made) as "%!w(<nil>)"
RetryLoopHead(r) ==
    IF r.i <= r.maxRetries
    THEN [r EXCEPT !.pc = "fn", !.calls = Append(@, r.ctxDone)]
    ELSE [r EXCEPT !.pc = "done",
                   !.ret = [result |-> r.result,
                            err |-> <<"failed after ", ToString(r.maxRetries),
                                      " retries: ">>
                                    \o IF r.err = <<>> THEN <<"%!w(<nil>)">> ELSE r.err]]

RetryRest ==
    UNCHANGED <<rolloutVars, batch, spawned, sem, mu, wpc, results, produced,
                cancelled, completed, progressCalls, returned, mapped, scoring,
                shared>>

\* Retry is entered: delay := initialDelay, i := 0, first test of the loop
RetryStart ==
    /\ retry.pc = "start"
    /\ retry' = RetryLoopHead(retry)
    /\ RetryRest

\* fn returns: success returns at once, then the context is tested, then a
\* failure of the last attempt leaves the loop, else the backoff is entered
RetryFnReturn ==
    /\ retry.pc = "fn"
    /\ \E out \in {[result |-> <<"ok">>, err |-> <<>>],
                    [result |-> <<>>, err |-> <<"failure ", ToString(Len(retry.calls))>>]} :
          LET r == [retry EXCEPT !.result = out.result, !.err = out.err,
                                 !.outs = Append(@, out)]
          IN  retry' =
                IF out.err = <<>>
                THEN [r EXCEPT !.pc = "done", !.ret = [result |-> out.result, err |-> <<>>]]
                ELSE IF r.ctxDone
                THEN [r EXCEPT !.pc = "done",
                               !.ret = [result |-> out.result, err |-> <<"context canceled">>]]
                ELSE IF r.i = r.maxRetries
                THEN [r EXCEPT !.pc = "done",
                               !.ret = [result |-> out.result,
                                        err |-> <<"failed after ", ToString(r.maxRetries),
                                                  " retries: ">> \o out.err]]
                ELSE [r EXCEPT !.pc = "select"]
    /\ RetryRest

\* the select of the backoff: the timer case doubles the delay and goes to the
\* next iteration; the ctx.Done() case returns the context's error.  When both
\* are ready the runtime picks either.
RetrySelect ==
    /\ retry.pc = "select"
    /\ \/ retry' = RetryLoopHead([retry EXCEPT !.waits = Append(@, retry.delay),
                                                !.delay = 2 * @, !.i = @ + 1])
       \/ /\ retry.ctxDone
          /\ retry' = [retry EXCEPT !.pc = "done",
                                     !.ret = [result |-> retry.result,
                                              err |-> <<"context canceled">>]]
    /\ RetryRest

\* the caller's context is cancelled while fn runs or while Retry waits
RetryCancel ==
    /\ retry.pc \in {"fn", "select"}
    /\ ~retry.ctxDone
    /\ retry' = [retry EXCEPT !.ctxDone = TRUE,
                               !.cancelledAt = IF retry.pc = "fn" THEN "attempt" ELSE "wait"]
    /\ RetryRest

NextRetry ==
    \/ RetryStart
    \/ RetryFnReturn
    \/ RetrySelect
    \/ RetryCancel

SpecRetry == InitRetry /\ [][NextRetry]_vars

\* ---- ComputeReward on rubrics a caller builds (pkg/rubrics) ----
\* Bounds: metrics added to a rubric, members of a group, entries of a
\* code-execution history
MaxMetrics == 2
MaxMembers == 2
MaxExecutions == 2

\* The rubrics a caller can build with NewMultiMetricRubric and at most k calls
\* of AddMetric.  The first two metrics return 0, 0.5, 1 or an error and have
\* the weight -2, 0, 0.7, 1 or 2; a later metric returns 1 or an error and has
\* the weight 1.
Built[k \in 0..MaxMetrics] ==
    LET metrics == {Metric(Reward(Zero)), Metric(Reward(Half)), Metric(Reward(One)),
                    Metric([err |-> <<"metric a failed">>, reward |-> Zero]),
                    Metric([err |-> <<"metric b failed">>, reward |-> Zero])}
        later == {Metric(Reward(One)),
                  Metric([err |-> <<"metric b failed">>, reward |-> Zero])}
        signed(w) == {[w EXCEPT !.neg = TRUE], Zero, One, w}
        weights == signed(Q(2, 1)) \cup {Q(7, 10)}
    IN  IF k = 0 THEN {NewMultiMetricRubric}
        ELSE Built[k - 1]
             \cup {AddMetric(r, fn, w) : r \in Built[k - 1],
                                         fn \in IF k <= 2 THEN metrics ELSE later,
                                         w \in IF k <= 2 THEN weights ELSE {One}}

\* The orders in which the runtime can iterate a map of n keys: every order
MapOrders(n) == {f \in [1..n -> 1..n] : \A i, j \in 1..n : f[i] = f[j] => i = j}

\* The groups a caller can build: NewRubricGroup on a map of at most MaxMembers
\* rubrics (the order is the one the group came to hold them in), or
\* NewRubricGroup on fewer and then AddRubric.  A group of one or two members
\* takes them from the rubrics in members and the rubric of NewMultiMetricRubric
\* with a metric of 2^33 at the weight 0.7; a larger group is made of the zero
\* value of BaseRubric, the rubric of NewMultiMetricRubric, that rubric with a
\* metric of 0.5 at the weight 0.7, and that rubric with a metric that fails.
Groups(members, mergeWeights) ==
    LET few == {[NewBaseRubric EXCEPT !.rewardFuncs = <<>>, !.rewardWeights = <<>>],
                NewMultiMetricRubric,
                AddMetric(NewMultiMetricRubric, Metric(Reward(Half)), Q(7, 10)),
                AddMetric(NewMultiMetricRubric,
                          Metric([err |-> <<"metric a failed">>, reward |-> Zero]), One)}
        large == AddMetric(NewMultiMetricRubric,
                           Metric(Reward([kind |-> "finite", neg |-> FALSE,
                                          mant |-> <<1>>, exp |-> 33])),
                           Q(7, 10))
        from(k) == IF k <= 2 THEN members \cup {large} ELSE few
        maps(n) == UNION {[1..k -> from(k)] : k \in 0..n}
    IN  {NewRubricGroup(ms, mergeWeights) : ms \in maps(MaxMembers)}
        \cup UNION {{AddRubric(NewRubricGroup(ms, mergeWeights), r) :
                        r \in from(Len(ms) + 1)} :
                    ms \in {m \in maps(MaxMembers - 1) :
                               Len(m) < 2 \/ \A i \in 1..Len(m) : m[i] \in few}}

\* A call ComputeReward(ctx, parsed, groundTruth) about to run on a rubric that
\* was built with AddMetric, on the zero value of BaseRubric (no functions, no
\* weights), on a group of such rubrics, or on the math rubric; or a call
\* ComputeRewardWithState on the code-math rubric with a state map that has no
\* code-execution history or one of successes and failures; or the calls
\* GetRewardFuncs, GetRewardWeights and ComputeReward on a group in either mode;
\* or a call of every function that GetRewardFuncs of an environment group returns
InitRubric ==
    /\ RolloutIdle
    /\ BatchIdle
    /\ RetryIdle
    /\ shared = [kind |-> "none"]
    /\ \/ \E r \in Built[MaxMetrics]
               \cup {[NewBaseRubric EXCEPT !.rewardFuncs = <<>>, !.rewardWeights = <<>>]}
               \cup Groups(Built[1] \cup {[NewBaseRubric EXCEPT !.rewardFuncs = <<>>,
                                                                 !.rewardWeights = <<>>]},
                            FALSE)
               \cup {NewMathRubric},
          parsed \in {<<"4">>, <<"5">>, Text.ans4, Text.ans5} :
          /\ r.type = "math" \/ parsed \in {<<"4">>, <<"5">>}
          /\ scoring = [pc |-> "start", rubric |-> r, parsed |-> parsed,
                        groundTruth |-> <<"4">>, state |-> <<>>, out |-> <<>>]
       \/ \E mergeWeights \in BOOLEAN, parsed \in {<<"4">>, <<"5">>} :
             \E g \in Groups(Built[1] \cup {[NewBaseRubric EXCEPT !.rewardFuncs = <<>>,
                                                                  !.rewardWeights = <<>>]},
                              mergeWeights) :
                scoring = [pc |-> "start group", rubric |-> g, parsed |-> parsed,
                           groundTruth |-> <<"4">>, state |-> <<>>, out |-> <<>>]
       \/ \E parsed \in {<<"4">>, <<"5">>, Text.ans4, Text.code, Text.codeans},
             st \in {<<>>} \cup {[code_executions |-> h] :
                                   h \in UNION {[1..k -> [success : BOOLEAN]] :
                                                   k \in 0..MaxExecutions}} :
          scoring = [pc |-> "start with state", rubric |-> NewCodeMathRubric,
                     parsed |-> parsed, groundTruth |-> <<"4">>, state |-> st,
                     out |-> <<>>]
       \/ \E order \in {<<<<"math">>, <<"chat">>>>, <<<<"chat">>, <<"math">>>>},
             parsed \in {<<"4">>, <<"5">>, Text.ans4},
             gt \in {<<"math", ":", "4">>, <<"chat", ":", "4">>, <<"code", ":", "4">>,
                     <<"chat", ":", "math", ":", "4">>, <<"4">>} :
          LET sub == [t \in {<<"math">>, <<"chat">>} |->
                         SetRubric(NewSingleTurnEnv(""),
                                   IF t = <<"math">> THEN NewMathRubric ELSE NewBaseRubric)]
          IN  scoring = [pc |-> "start funcs", rubric |-> NewEnvGroup(sub, order),
                         parsed |-> parsed, groundTruth |-> gt, state |-> <<>>,
                         out |-> <<>>]

\* the call returns
RubricScore ==
    /\ \/ /\ scoring.pc = "start"
          /\ scoring' = [scoring EXCEPT
                            !.pc = "done",
                            !.out = IF scoring.rubric.type = "group"
                                    THEN RubricGroupComputeReward(scoring.rubric,
                                                                  scoring.parsed,
                                                                  scoring.groundTruth)
                                    ELSE ComputeReward(scoring.rubric, scoring.parsed,
                                                       scoring.groundTruth)]
       \/ /\ scoring.pc = "start group"
          /\ \E weights \in {RubricGroupGetRewardWeights(scoring.rubric)},
                reward \in {RubricGroupComputeReward(scoring.rubric, scoring.parsed,
                                                     scoring.groundTruth)} :
                 \E iteration \in
                       IF scoring.rubric.mergeWeights
                       THEN MapOrders(Len(Concatenated(scoring.rubric.rubrics,
                                                       "rewardFuncs")))
                       ELSE {<<>>} :
                    scoring' = [scoring EXCEPT
                                  !.pc = "done group",
                                  !.out = [funcs |-> RubricGroupGetRewardFuncs(
                                                         scoring.rubric, iteration),
                                           weights |-> weights,
                                           reward |-> reward]]
       \/ /\ scoring.pc = "start with state"
          /\ scoring' = [scoring EXCEPT
                            !.pc = "done with state",
                            !.out = ComputeRewardWithState(scoring.rubric, scoring.parsed,
                                                           scoring.groundTruth,
                                                           scoring.state)]
       \/ /\ scoring.pc = "start funcs"
          /\ LET funcs == EnvGroupGetRewardFuncs(scoring.rubric)
             IN  scoring' = [scoring EXCEPT
                               !.pc = "done funcs",
                               !.out = [k \in 1..Len(funcs) |->
                                           [envName |-> funcs[k].envName,
                                            returns |-> wrapRewardFunc(funcs[k],
                                                                       scoring.parsed,
                                                                       scoring.groundTruth)]]]
    /\ UNCHANGED <<rolloutVars, batch, spawned, sem, mu, wpc, results, produced,
                   cancelled, completed, progressCalls, returned, mapped, retry,
                   shared>>

SpecRubric == InitRubric /\ [][RubricScore]_vars

-----------------------------------------------------------------------------
(* Calls on the parsers and on the answer comparison *)

\* the longest declaration list a parser is constructed from
MaxDecls == 2

\* the longest few-shot list an environment is configured with
MaxFewShot == 2

\* The answers a caller compares: decimal numbers with and without separators,
\* currency signs and spaces, and texts that are no numbers
Answers ==
    {<<"1", ",", "0", "0", "0", ".", "0">>, <<"1", "0", "0", "0">>, <<"abc">>, <<"abd">>,
     <<"1">>, <<"1", ".", "0">>, <<"$", "1">>, <<" ", "-", "1">>,
     <<"-", "1", ".", "0", "0">>, <<".", "5">>, <<"0", ".", "5", "0">>, <<>>,
     <<"-", "0">>, <<"0">>}

\* and pairs of answers in the other notations strconv.ParseFloat reads: an
\* exponent, digit-separating underscores, a hexadecimal number, the names of
\* the infinities and of NaN, and numbers less than 1e-9 apart
Notations ==
    {<<<<"1e3">>, <<"1", "0", "0", "0">>>>, <<<<"1_0">>, <<"10">>>>, <<<<"1_0">>, <<"1">>>>,
     <<<<"inf">>, <<"Infinity">>>>, <<<<"+Inf">>, <<"-inf">>>>, <<<<"NaN">>, <<"nan">>>>,
     <<<<"NaN">>, <<"1">>>>, <<<<"inf">>, <<"1">>>>, <<<<"0x1p-2">>, <<"0.25">>>>,
     <<<<"1">>, <<"0.999999999">>>>, <<<<"0.0000000003">>, <<"0">>>>,
     <<<<"1">>, <<"0.999999998">>>>, <<<<"1e400">>, <<"inf">>>>}

\* A caller about to construct a parser from a declaration list, each
\* declaration a name, a list of names (the empty list too) or a value of
\* another type; or about to compare two answers; or about to format a prompt
\* on an environment with or without a system prompt and few-shot messages
InitParser ==
    /\ RolloutIdle
    /\ BatchIdle
    /\ RetryIdle
    /\ shared = [kind |-> "none"]
    /\ \/ \E decls \in UNION {[1..k ->
                                  {[kind |-> "string", names |-> <<n>>] :
                                      n \in {"think", "answer", "f("}}
                                  \cup {[kind |-> "list", names |-> ns] :
                                           ns \in {<<>>, <<"tool", "answer">>}}
                                  \cup {[kind |-> "other", names |-> <<>>]}] :
                               k \in 0..MaxDecls},
             call \in {[type |-> "xml", answerField |-> a] : a \in {"", "tool", "think"}}
                       \cup {[type |-> "smola", answerField |-> ""]} :
          scoring = [pc |-> "new", type |-> call.type, decls |-> decls,
                     answerField |-> call.answerField, err |-> <<>>,
                     parser |-> NilParser, values |-> <<>>,
                     formatted |-> [err |-> <<>>, text |-> <<>>], text |-> <<>>,
                     parsed |-> [err |-> <<>>, Fields |-> <<>>],
                     answer |-> [err |-> <<>>, value |-> <<>>]]
       \/ \E pair \in Answers \X Answers \cup Notations :
          scoring = [pc |-> "compare", answer1 |-> pair[1], answer2 |-> pair[2],
                     out |-> FALSE, swapped |-> FALSE]
       \/ \E systemPrompt \in {<<>>, <<"Be brief">>, <<"Use", "{tool_descriptions}", "%s">>},
             fewShot \in UNION {[1..k -> {Msg("user", <<"1+1", "?">>),
                                          Msg("assistant", Text.ans5)}] :
                                   k \in 0..MaxFewShot},
             prompt \in {<<>>, <<"2+2", "?">>} :
          \E made \in {NewBaseEnvironment(""), NewToolEnv("", systemPrompt, ToolList, 2),
                         NewCodeMathEnv("", systemPrompt, 2),
                         NewSmolaToolEnv("", systemPrompt, ToolList, 2)} :
             scoring = [pc |-> "format prompt",
                        env |-> IF made.kind = "base"
                                THEN [made EXCEPT !.systemPrompt = systemPrompt,
                                                  !.fewShot = fewShot]
                                ELSE [made EXCEPT !.fewShot = fewShot],
                        prompt |-> prompt, out |-> <<>>]

\* NewXMLParser / NewSmolaParser return; Format returns for a value map; ParseXML
\* (ParseSmola) and Parse return for a text, which is a text of the caller or
\* the text Format returned; CompareMathAnswers returns for two answers and
\* for the same answers in the other order; FormatPrompt returns
ParserCall ==
    /\ \/ /\ scoring.pc = "new"
          /\ LET made == NewFields(scoring.decls)
             IN  scoring' = IF made.err # <<>>
                            THEN [scoring EXCEPT !.pc = "rejected", !.err = made.err]
                            ELSE [scoring EXCEPT
                                     !.pc = "built",
                                     !.parser = IF scoring.type = "xml"
                                                THEN NewXMLParser(made.fields,
                                                                  scoring.answerField)
                                                ELSE NewSmolaParser(made.fields)]
       \/ /\ scoring.pc = "built"
          /\ scoring.type = "xml"
          /\ \E values \in UNION {[names -> {<<"4">>, <<" ", "5", "\n">>}] :
                                   names \in SUBSET {"think", "answer", "tool", "f("}} :
                scoring' = [scoring EXCEPT
                               !.pc = "formatted",
                               !.values = values,
                               !.formatted = Format(scoring.parser, values)]
       \/ /\ \/ /\ scoring.pc = "built"
                /\ \E text \in {Text.plain, Text.ans4, Text.tool,
                                 <<"<answer>", "1", "</answer>", "<answer>", "2", "</answer>">>,
                                 <<"<tool>", "<answer>", "\n", "</tool>", "7", "</answer>">>,
                                 <<"</answer>", "<answer>", "1">>} :
                      scoring' = [scoring EXCEPT
                                     !.pc = "parsed",
                                     !.text = text,
                                     !.parsed = ParseXML(scoring.parser, text),
                                     !.answer = ParserParse(scoring.parser, text)]
             \/ /\ scoring.pc = "formatted"
                /\ scoring.formatted.err = <<>>
                /\ scoring' = [scoring EXCEPT
                                  !.pc = "parsed back",
                                  !.text = scoring.formatted.text,
                                  !.parsed = ParseXML(scoring.parser, scoring.formatted.text),
                                  !.answer = ParserParse(scoring.parser,
                                                         scoring.formatted.text)]
       \/ /\ scoring.pc = "compare"
          /\ scoring' = [scoring EXCEPT
                            !.pc = "compared",
                            !.out = CompareMathAnswers(scoring.answer1, scoring.answer2),
                            !.swapped = CompareMathAnswers(scoring.answer2,
                                                           scoring.answer1)]
       \/ /\ scoring.pc = "format prompt"
          /\ scoring' = [scoring EXCEPT
                            !.pc = "prompt formatted",
                            !.out = FormatPrompt(scoring.env, scoring.prompt)]
    /\ UNCHANGED <<rolloutVars, batch, spawned, sem, mu, wpc, results, produced,
                   cancelled, completed, progressCalls, returned, mapped, retry,
                   shared>>

SpecParser == InitParser /\ [][ParserCall]_vars

-----------------------------------------------------------------------------
(* Two Rollout calls and a SetParser or SetRubric call on one environment *)

\* Two goroutines about to call Rollout on the same single-turn or dialog
\* environment with the same prompt slice, whose array is full or has room for
\* one more message; the client answers the first call with "4" and the second
\* with "5".  A third goroutine may be about to call SetParser or SetRubric.
InitShared ==
    /\ RolloutIdle
    /\ BatchIdle
    /\ RetryIdle
    /\ scoring = [pc |-> "idle"]
    /\ \E kind \in {"single", "dialog"},
          sc \in {<<NilParser, NilRubric>>, <<NewBaseParser, NewBaseRubric>>},
          cap \in 1..2,
          set \in {[field |-> "none", parser |-> NilParser, rubric |-> NilRubric]}
                  \cup {[field |-> "parser", parser |-> q, rubric |-> NilRubric] :
                           q \in {NilParser, NewBaseParser}}
                  \cup {[field |-> "rubric", parser |-> NilParser, rubric |-> q] :
                           q \in {NilRubric, NewBaseRubric}}
                  \cup {[field |-> f, parser |-> NilParser, rubric |-> NilRubric] :
                           f \in {"dataset", "evalDataset"}} :
          shared = [kind |-> kind,
                    env |-> SetRubric(SetParser(IF kind = "single"
                                                THEN NewSingleTurnEnv("")
                                                ELSE NewDialogMultiTurnEnv("", 2, <<>>),
                                                sc[1]), sc[2]),
                    mu |-> 0,
                    array |-> [i \in 1..cap |-> IF i = 1 THEN Msg("user", <<"2+2", "?">>)
                                                ELSE Msg("", <<>>)],
                    len |-> 1,
                    setter |-> [pc |-> IF set.field = "none" THEN "done" ELSE "start",
                                field |-> set.field, parser |-> set.parser,
                                rubric |-> set.rubric],
                    th |-> [r \in 1..2 |->
                               [pc |-> "start",
                                text |-> IF r = 1 THEN <<"4">> ELSE <<"5">>,
                                response |-> <<>>, turn |-> 0,
                                seen |-> NilParser, used |-> NilParser,
                                seenRubric |-> NilRubric, usedRubric |-> NilRubric,
                                duringWrite |-> FALSE,
                                parsed |-> <<>>, score |-> Zero,
                                where |-> "none", own |-> <<>>, n |-> 0]]]

\* One step of goroutine r inside Rollout.  A step reads or writes the shared
\* environment or the shared array at most once; the reads of e.parser and
\* e.rubric take no lock (duringWrite tells that a read was made while a setter
\* held e.mu), and the value at the call is the one of the nil check (kept in a
\* register) or the one read from the field at that moment.  The fields are
\* interface values of two words, type and data: a read that overlaps the
\* setter's store of the field (the setter holds e.mu and has not completed the
\* store) may take one word from the old value and the other from the new one.
\* A nil type word is the nil interface to the nil test and to the call,
\* whatever the data word, so that mix is the old or the new value; the type
\* word of the non-nil value with the nil data word of the other is a nil
\* pointer of that type, which passes the nil test: (*BaseParser)(nil).Parse
\* touches no field of its receiver and answers as a parser does,
\* (*BaseRubric)(nil).ComputeReward reads r.rewardFuncs and panics.  The turn
\* limit of the dialog environment is positive, so the loop uses it as it is.
RolloutStep(r) ==
    LET t == shared.th[r]
        e == shared.env
        To(u) == shared' = [shared EXCEPT !.th[r] = u]
        free == shared.mu = 0
        read(field, old, new) ==
            {old} \cup IF /\ shared.setter.pc = "locked"
                          /\ shared.setter.field = field
                          /\ (old.type = "nil") # (new.type = "nil")
                       THEN {[IF old.type = "nil" THEN new ELSE old
                                 EXCEPT !.type = IF field = "parser" THEN "nil *BaseParser"
                                                 ELSE "nil *BaseRubric"]}
                       ELSE {}
        parsers == read("parser", e.parser, shared.setter.parser)
        rubrics == read("rubric", e.rubric, shared.setter.rubric)
    IN  /\ shared.kind # "none"
        /\ \/ /\ t.pc = "start" /\ shared.kind = "single"
              \* GetModelResponse
              /\ To([t EXCEPT !.pc = "check parser", !.response = t.text])
           \/ /\ t.pc = "start" /\ shared.kind = "dialog"
              \* BaseMultiTurnRollout: the copy of the prompt
              /\ To([t EXCEPT !.pc = "loop", !.where = "own",
                              !.own = SubSeq(shared.array, 1, shared.len),
                              !.n = shared.len])
           \/ /\ t.pc = "loop"
              \* one pass of the loop: IsCompleted, the model call, IsCompleted,
              \* EnvResponse, all on the goroutine's own slice
              /\ \E c \in IsCompleted(e, t.own, NewState(<<"4">>)) :
                    IF t.turn >= e.MaxTurns \/ c.done
                    THEN \E p \in parsers :
                            To([t EXCEPT !.pc = IF p.type # "nil" /\ t.response # <<>>
                                               THEN "parse" ELSE "done",
                                        !.seen = p,
                                        !.duringWrite = ~free])
                    ELSE LET w == Append(t.own, Msg("assistant", t.text))
                         IN  \E d \in IsCompleted(e, w, NewState(<<"4">>)),
                                x \in EnvResponse(e, w, NewState(<<"4">>)) :
                                To([t EXCEPT
                                      !.response = t.text,
                                      !.turn = t.turn + 1,
                                      !.own = IF d.done \/ t.turn + 1 >= e.MaxTurns
                                              THEN w ELSE Append(w, x.msg),
                                      !.n = Len(IF d.done \/ t.turn + 1 >= e.MaxTurns
                                                THEN w ELSE Append(w, x.msg))])
           \/ /\ t.pc = "check parser"
              \* if e.parser != nil
              /\ \E p \in parsers :
                    To([t EXCEPT !.pc = IF p.type = "nil" THEN "check rubric"
                                        ELSE "parse",
                                 !.seen = p,
                                 !.parsed = t.response,
                                 !.duringWrite = ~free])
           \/ /\ t.pc = "parse"
              \* e.parser.Parse(ctx, response)
              /\ \E q \in {t.seen} \cup parsers :
                    To(IF q.type = "nil"
                       THEN [t EXCEPT !.pc = "panic", !.used = q]
                       ELSE [t EXCEPT !.pc = "check rubric", !.used = q,
                                      !.parsed = ParserParse(IF q.type = "nil *BaseParser"
                                                             THEN NewBaseParser ELSE q,
                                                             t.response).value])
           \/ /\ t.pc = "check rubric"
              \* if e.rubric != nil
              /\ \E p \in rubrics :
                    To([t EXCEPT !.pc = IF p.type # "nil" THEN "score"
                                        ELSE IF shared.kind = "single" THEN "append"
                                        ELSE "done",
                                 !.seenRubric = p,
                                 !.duringWrite = ~free])
           \/ /\ t.pc = "score"
              \* e.rubric.ComputeReward(ctx, parsed, answer)
              /\ \E q \in {t.seenRubric} \cup rubrics :
                    To(IF q.type \in {"nil", "nil *BaseRubric"}
                       THEN [t EXCEPT !.pc = "panic", !.usedRubric = q]
                       ELSE [t EXCEPT !.pc = IF shared.kind = "single" THEN "append"
                                             ELSE "done",
                                      !.usedRubric = q,
                                      !.score = ComputeReward(q, t.parsed, <<"4">>).score])
           \/ /\ t.pc = "append"
              \* rollout.Messages = append(messages, assistant message): in place
              \* when the prompt's array has room, in a new array when it is full
              /\ IF Len(shared.array) > shared.len
                 THEN shared' = [shared EXCEPT
                                    !.array[shared.len + 1] = Msg("assistant", t.response),
                                    !.th[r] = [t EXCEPT !.pc = "done", !.where = "prompt",
                                                        !.n = shared.len + 1]]
                 ELSE To([t EXCEPT !.pc = "done", !.where = "own",
                                   !.own = Append(SubSeq(shared.array, 1, shared.len),
                                                  Msg("assistant", t.response)),
                                   !.n = shared.len + 1])
        /\ UNCHANGED <<rolloutVars, batch, spawned, sem, mu, wpc, results, produced,
                       cancelled, completed, progressCalls, returned, mapped, retry,
                       scoring>>

\* the dataset the third goroutine hands to SetDataset or SetEvalDataset
SetterDataset == NewSimpleDataset(<<[question |-> <<"2+2", "?">>, answer |-> <<"4">>]>>)

\* One step of the goroutine inside SetParser, SetRubric, SetDataset or
\* SetEvalDataset: e.mu.Lock(); the write of the field, with e.mu held; the
\* deferred e.mu.Unlock() as the call returns
SetterStep ==
    /\ shared.kind # "none"
    /\ \/ /\ shared.setter.pc = "start" /\ shared.mu = 0
          /\ shared' = [shared EXCEPT !.mu = 3, !.setter.pc = "locked"]
       \/ /\ shared.setter.pc = "locked"
          /\ shared' = [shared EXCEPT
                            !.setter.pc = "written",
                            !.env = CASE shared.setter.field = "parser"
                                           -> SetParser(shared.env, shared.setter.parser)
                                      [] shared.setter.field = "rubric"
                                           -> SetRubric(shared.env, shared.setter.rubric)
                                      [] shared.setter.field = "dataset"
                                           -> SetDataset(shared.env, SetterDataset)
                                      [] shared.setter.field = "evalDataset"
                                           -> SetEvalDataset(shared.env, SetterDataset)]
       \/ /\ shared.setter.pc = "written"
          /\ shared' = [shared EXCEPT !.mu = 0, !.setter.pc = "done"]
    /\ UNCHANGED <<rolloutVars, batch, spawned, sem, mu, wpc, results, produced,
                   cancelled, completed, progressCalls, returned, mapped, retry,
                   scoring>>

NextShared ==
    \/ \E r \in 1..2 : RolloutStep(r)
    \/ SetterStep

SpecShared == InitShared /\ [][NextShared]_vars

\* BaseMultiTurnRollout alone, called for an environment whose hooks may return
\* anything.  The call is sequential code, so a step that can be taken is taken.
InitLoop == Init /\ env.kind = "hooks"

NextLoop ==
    \/ MultiTurnBegin
    \/ LoopHead
    \/ ModelTurn
    \/ EnvTurn
    \/ LoopReturn
    \/ ScoreStep

LoopSpec == InitLoop /\ [][NextLoop]_vars /\ WF_vars(NextLoop)

-----------------------------------------------------------------------------
(* Properties *)

\* C1: whatever the hooks of a multi-turn environment return and whatever the
\* model answers, the loop makes at most max_turns model calls and appends at
\* most max_turns assistant messages, where a max_turns of zero or less counts
\* as 10, and the rollout then returns.
C1_TurnLimit ==
    /\ [](env.kind # "single" =>
            LET limit == IF env.MaxTurns <= 0 THEN 10 ELSE env.MaxTurns
            IN  /\ Len(clientCalls) <= limit
                /\ turn <= limit
                /\ Cardinality({i \in 1..Len(completion) :
                                   completion[i].Role = "assistant"}) <= limit)
    /\ <>(pc = "done")

\* a rollout whose hooks never reported completion used all 10 default turns
C1_Witness ==
    /\ pc = "done" /\ env.kind = "hooks" /\ env.MaxTurns = 0
    /\ ret.kind = "rollout"
    /\ Len(clientCalls) = 10
    /\ hookCalls = 9

\* C4: a single-turn rollout never makes more than one client call and makes
\* exactly one, of the kind its mode names, when the prompt fits the mode; the
\* Rollout it returns carries the model's text as Response and the rubric's
\* reward for the parsed text as Score, which with the trim parser and the
\* exact-match rubric is 1 when the trimmed response equals the trimmed ground
\* truth and 0 otherwise.
C4_SingleTurn ==
    (env.kind = "single" /\ pc = "done") =>
        LET chat == env.messageType = "chat"
            fits == \/ chat /\ req.prompt.type = "messages"
                    \/ env.messageType = "completion" /\ req.prompt.type = "string"
            text == clientCalls[1].text
        IN  /\ Len(clientCalls) = IF fits THEN 1 ELSE 0
            /\ fits => clientCalls[1].method = IF chat THEN "chat" ELSE "completion"
            /\ ret.kind = "rollout" =>
                  /\ fits
                  /\ ret.Response = text
                  /\ env.parser.type # "nil" /\ env.rubric.type # "nil" =>
                        ret.Score = ComputeReward(env.rubric,
                                                  ParserParse(env.parser, text).value,
                                                  answer).score
                  /\ env.parser = NewBaseParser /\ env.rubric = NewBaseRubric =>
                        ret.Score = IF TrimSpace(text) = TrimSpace(answer)
                                    THEN One ELSE Zero
            /\ (fits /\ clientCalls[1].err = <<>> /\ env.parser = NewBaseParser
                     /\ env.rubric = NewBaseRubric) => ret.kind = "rollout"

\* a completion-mode rollout scored 1 although response and ground truth differ
\* in surrounding white space
C4_Witness ==
    /\ pc = "done" /\ env.kind = "single" /\ env.messageType = "completion"
    /\ env.parser = NewBaseParser /\ env.rubric = NewBaseRubric
    /\ clientCalls = <<[method |-> "completion", err |-> <<>>, text |-> Text.plain]>>
    /\ answer = <<"4", " ">>
    /\ ret.kind = "rollout" /\ ret.Response = Text.plain /\ ret.Score = One

\* C5: a model response of the multi-turn loop that begins with "[ERROR]" is the
\* last model call of the rollout, is appended as an assistant message with no
\* environment message after it, and no EnvResponse is requested for it; the
\* loop returns a rollout with that text as Response.  (The Rollout of a
\* dialog environment may then fail to score that text.)
C5_ErrorStops ==
    \A k \in 1..Len(clientCalls) :
        (env.kind # "single" /\ clientCalls[k].err = <<>>
         /\ clientCalls[k].text # <<>> /\ clientCalls[k].text[1] = "[ERROR]") =>
            /\ k = Len(clientCalls)
            /\ pc \in {"return", "score", "done", "edited"}
            /\ workingMessages # <<>>
            /\ workingMessages[Len(workingMessages)] =
                   [Role |-> "assistant", Content |-> clientCalls[k].text]
            /\ hookCalls = k - 1
            /\ pc = "score" =>
                  /\ ret.kind = "rollout"
                  /\ ret.Response = clientCalls[k].text
                  /\ ret.Messages = workingMessages
            /\ pc = "done" =>
                  \/ ret.kind = "rollout" /\ ret.Response = clientCalls[k].text
                  \/ ret.kind = "error" /\ env.kind = "dialog"
                     /\ ret.err[1] \in {"failed to parse response",
                                        "failed to compute reward"}

\* the second response of a conversation began with "[ERROR]" and ended it
C5_Witness ==
    /\ pc = "done" /\ env.kind = "hooks" /\ env.MaxTurns = 3
    /\ Len(clientCalls) = 2
    /\ clientCalls[2].text = Text.error
    /\ hookCalls = 1
    /\ ret.kind = "rollout" /\ ret.Response = Text.error
    /\ Len(ret.Messages) = Len(req.prompt.messages) + 3

\* C6: a client error on a model call is the last client call of the rollout;
\* the rollout returns no Rollout but an error that wraps the client's error
\* and, in the multi-turn loop, names the turn of the failed call.
C6_ClientError ==
    \A k \in 1..Len(clientCalls) :
        clientCalls[k].err # <<>> =>
            /\ k = Len(clientCalls)
            /\ pc = "done"
            /\ ret.kind = "error"
            /\ ret.Messages = <<>> /\ ret.Response = <<>>
            /\ ret.err = IF env.kind = "single"
                         THEN <<"failed to get model response">> \o clientCalls[k].err
                         ELSE <<"failed to get model response at turn ",
                                ToString(k - 1), ": ">> \o clientCalls[k].err

\* the third model call of a conversation failed
C6_Witness ==
    /\ pc = "done" /\ env.kind = "tool"
    /\ Len(clientCalls) = 3
    /\ clientCalls[3].err = <<"connection refused">>
    /\ ret.kind = "error"
    /\ ret.err[2] = "2"

\* C7: EnvGroup.Rollout cuts a ground truth that has a colon at its first colon;
\* when the text before it names a registered sub-environment, exactly that
\* sub-environment runs exactly one rollout with the text after the colon as its
\* answer; when no sub-environment has the task's name the call returns an
\* unknown-task error, no sub-environment is called and no model call is made.
C7_GroupRouting ==
    (req.target = "group" /\ pc # "group") =>
        LET a      == req.answer
            colons == {i \in 1..Len(a) : a[i] = ":"}
            first  == CHOOSE i \in colons : \A j \in colons : i <= j
            task   == [i \in 1..(first - 1) |-> a[i]]
            rest   == [i \in 1..(Len(a) - first) |-> a[first + i]]
        IN  /\ Len(delegated) <= 1
            /\ (colons # {} /\ task \in DOMAIN group.envs) =>
                  /\ delegated = <<[task |-> task, answer |-> rest]>>
                  /\ env = group.envs[task]
                  /\ answer = rest
            /\ (colons # {} /\ task \notin DOMAIN group.envs) => delegated = <<>>
            /\ delegated = <<>> =>
                  /\ pc = "done"
                  /\ ret.kind = "error"
                  /\ ret.err[1] = "unknown task: "
                  /\ clientCalls = <<>>

\* "math:1:2" reached the math environment with the answer "1:2"
C7_Witness ==
    /\ req.target = "group" /\ pc = "done"
    /\ req.answer = <<"math", ":", "1", ":", "2">>
    /\ delegated = <<[task |-> <<"math">>, answer |-> <<"1", ":", "2">>]>>
    /\ answer = <<"1", ":", "2">>
    /\ env.kind = "single"
    /\ ret.kind = "rollout"

\* C2: the slice Process returns has one entry per item; entry i carries the
\* index of item i and, for every item whose processor was invoked, the result
\* and the error that invocation returned, whatever the order in which the
\* workers finished; an error is found in a slot only when that item's own
\* processor failed (or the item was abandoned on a cancelled context), and
\* when the context is never cancelled every item has been processed.
C2_ProcessResults ==
    (batch.method = "Process" /\ returned) =>
        /\ Len(results) = Len(batch.items)
        /\ \A i \in 1..Len(batch.items) :
              /\ results[i].Index = i - 1
              /\ ~cancelled => produced[i] # <<>>
              /\ produced[i] # <<>> =>
                    /\ produced[i][1] \in ProcessorReturns(batch.items[i])
                    /\ results[i].Result = produced[i][1].Result
                    /\ results[i].Error = produced[i][1].Error
              /\ produced[i] = <<>> =>
                    /\ cancelled
                    /\ results[i].Result = <<>>
                    /\ results[i].Error = <<"context canceled">>

\* three items with one slot at a time: the second failed, the others kept
\* their own results
C2_Witness ==
    /\ batch.method = "Process" /\ returned /\ ~cancelled
    /\ batch.maxConcurrent = 1
    /\ Len(batch.items) = 3
    /\ results = <<ProcessResult(0, <<"done", batch.items[1]>>, <<>>),
                   ProcessResult(1, <<>>, <<"failed", batch.items[2]>>),
                   ProcessResult(2, <<"done", batch.items[3]>>, <<>>)>>

\* C3: at every moment of Process and of ProcessWithProgress the number of
\* processor invocations that have started and not returned is at most the
\* maxConcurrent the processor was constructed with, 10 when that was zero or
\* negative.
C3_ConcurrencyBound ==
    Cardinality({i \in 1..Len(batch.items) : wpc[i] = "run"})
        <= IF batch.arg <= 0 THEN 10 ELSE batch.arg

\* two invocations run and a third worker waits for a slot
C3_Witness ==
    /\ batch.arg = 2
    /\ Len(batch.items) = 3
    /\ Cardinality({i \in 1..3 : wpc[i] = "run"}) = 2
    /\ \E i \in 1..3 : wpc[i] = "select"
    /\ ~cancelled

\* C8: in a double-check rollout whose first assistant message has a non-empty
\* answer field the question "Are you sure? Double-check your answer." is
\* appended, the model is queried a second time, and the Score returned is the
\* reward of the second assistant message.
C8_SecondAnswerScored ==
    (/\ env = NewDoubleCheckEnv(env.messageType)
     /\ pc = "done" /\ ret.kind = "rollout"
     /\ clientCalls # <<>>
     /\ Field(ParseXML(env.parser, clientCalls[1].text).Fields, "answer") # <<>>) =>
        /\ \E i \in 1..Len(ret.Messages) :
              ret.Messages[i] = Msg("user", <<"Are you sure", "?",
                                              " Double-check your answer", ".">>)
        /\ Len(clientCalls) >= 2
        /\ ret.Score = ComputeReward(env.rubric,
                                     ParserParse(env.parser, clientCalls[2].text).value,
                                     answer).score

\* C9: the Rollout of every concrete multi-turn environment returns as Score
\* the reward its rubric gives the parsed final assistant response against the
\* ground truth, so never the loop's 0.0 when the rubric rewards that answer.
C9_ConcreteScore ==
    (/\ env.kind \in {"dialog", "doublecheck", "tool", "smola", "codemath"}
     /\ pc = "done" /\ ret.kind = "rollout"
     /\ env.parser.type # "nil" /\ env.rubric.type # "nil"
     /\ ret.Response # <<>>) =>
        LET Same(reward) == reward.err = <<>> => ret.Score = reward.score
            Scored(parsed) ==
                parsed.err = <<>> =>
                    Same(ComputeReward(env.rubric, parsed.value, answer))
        IN  Scored(ParserParse(env.parser, ret.Response))

\* C10: a concrete multi-turn environment that scores the finished
\* conversation never returns a Rollout when its parser or its rubric fails on
\* the response it scores: it returns an error instead.
C10_ScoringFailureIsError ==
    (/\ env.kind \in {"dialog", "doublecheck"}
     /\ pc = "done" /\ ret.kind = "rollout"
     /\ env.parser.type # "nil") =>
        LET text == IF env.kind = "dialog" THEN ret.Response
                    ELSE LastAssistant(ret.Messages)
            Works(parsed) ==
                /\ parsed.err = <<>>
                /\ env.rubric.type # "nil" =>
                      ComputeReward(env.rubric, parsed.value, answer).err = <<>>
        IN  text # <<>> => Works(ParserParse(env.parser, text))

\* C11: a rollout never changes the caller's prompt: no step of a rollout, and
\* no later write of the caller to a message of the returned transcript, changes
\* the length or a message of the sequence that was passed in.
C11_PromptUntouched == [][req'.prompt.messages = req.prompt.messages]_vars

\* C12: ProcessWithProgress calls the progress callback once for every item,
\* whether its processor succeeded, failed or was never invoked because the
\* context was cancelled; at most one worker is inside the callback at a time;
\* the k-th call receives (k, len(items)), so the counts seen are 1, 2, ..., N.
C12_ProgressOncePerItem ==
    batch.method = "ProcessWithProgress" =>
        LET n == Len(batch.items)
        IN  /\ Cardinality({i \in 1..n : wpc[i] \in {"report", "report, no slot"}}) <= 1
            /\ Len(progressCalls)
                  = Cardinality({i \in 1..n : wpc[i] \in {"release", "done"}})
            /\ \A k \in 1..Len(progressCalls) : progressCalls[k] = <<k, n>>
            /\ returned => Len(progressCalls) = n

\* three items: one succeeded, one failed, one was abandoned on cancellation,
\* and the callback saw 1, 2, 3
C12_Witness ==
    /\ batch.method = "ProcessWithProgress" /\ returned
    /\ Len(batch.items) = 3
    /\ progressCalls = <<<<1, 3>>, <<2, 3>>, <<3, 3>>>>
    /\ \E i, j, k \in 1..3 :
          /\ produced[i] # <<>> /\ results[i].Error = <<>>
          /\ produced[j] # <<>> /\ results[j].Error # <<>>
          /\ produced[k] = <<>> /\ results[k].Error = <<"context canceled">>

\* C13: when no item fails ParallelMap returns no error and an output whose
\* entry i is what the function returned for item i; when an item fails (its
\* function returned an error, or it was abandoned on a cancelled context) it
\* returns no output and one error that names the lowest failing index and
\* wraps the error of that item.
C13_ParallelMap ==
    (batch.method = "ParallelMap" /\ returned) =>
        LET n      == Len(batch.items)
            failed == {i \in 1..n : produced[i] = <<>> \/ produced[i][1].Error # <<>>}
            first  == CHOOSE i \in failed : \A j \in failed : i <= j
        IN  IF failed = {}
            THEN /\ mapped.err = <<>>
                 /\ mapped.output = [i \in 1..n |-> <<"done", batch.items[i]>>]
                 /\ \A i \in 1..n : mapped.output[i] = produced[i][1].Result
            ELSE /\ mapped.output = <<>>
                 /\ mapped.err = <<"error processing item ", ToString(first - 1), ": ">>
                                   \o (IF produced[first] = <<>>
                                       THEN <<"context canceled">>
                                       ELSE produced[first][1].Error)

\* of three items the second and the third failed: the error names index 1
C13_Witness ==
    /\ batch.method = "ParallelMap" /\ returned /\ ~cancelled
    /\ Len(batch.items) = 3
    /\ produced[1][1].Error = <<>>
    /\ produced[2][1].Error # <<>>
    /\ produced[3][1].Error # <<>>
    /\ mapped = [output |-> <<>>,
                 err |-> <<"error processing item ", "1", ": ", "failed", batch.items[2]>>]

\* C14: a worker that reaches the select on the semaphore while the overall
\* context is already cancelled does not go on to invoke the processor, also
\* when a slot is free: its next step records the context's error.
C14_CancelledNeverRuns ==
    [][\A i \in 1..Len(batch.items) :
          (cancelled /\ wpc[i] = "select") => wpc'[i] # "run"]_vars

\* C15: a Retry call that has returned invoked fn at least once and at most
\* maxRetries+1 times; a success was returned as it is and was the last
\* invocation; when every attempt failed and the context was never cancelled fn
\* was invoked maxRetries+1 times and the error wraps the last failure; the
\* wait before attempt k+1 was initialDelay * 2^(k-1).
C15_RetryAttempts ==
    retry.pc = "done" =>
        LET n == Len(retry.outs)
        IN  /\ n >= 1
            /\ n <= retry.maxRetries + 1
            /\ Len(retry.calls) = n
            /\ \A k \in 1..n : retry.outs[k].err = <<>> =>
                   /\ k = n
                   /\ retry.ret = [result |-> retry.outs[k].result, err |-> <<>>]
            /\ ((\A k \in 1..n : retry.outs[k].err # <<>>) /\ retry.cancelledAt = "never") =>
                   /\ n = retry.maxRetries + 1
                   /\ retry.ret.err = <<"failed after ", ToString(retry.maxRetries),
                                         " retries: ">> \o retry.outs[n].err
            /\ Len(retry.waits) = n - 1
            /\ \A k \in 1..Len(retry.waits) :
                   retry.waits[k] = retry.initialDelay * (2 ^ (k - 1))

\* C16: when the context was cancelled during an attempt or during the backoff
\* wait, fn was not invoked after the cancellation and Retry returned the
\* context's error.
C16_NoRetryPastCancel ==
    (retry.pc = "done" /\ retry.cancelledAt \in {"attempt", "wait"}) =>
        /\ \A k \in 1..Len(retry.calls) : ~retry.calls[k]
        /\ retry.ret.err = <<"context canceled">>

\* C17: on a rubric of the base aggregator whose reward functions all return
\* values in [0,1] and whose weights have a positive sum, ComputeReward returns
\* a value in [0,1].
C17_RewardInUnitInterval ==
    (scoring.pc = "done" /\ scoring.rubric.type # "group") =>
        LET r == scoring.rubric
            n == Len(r.rewardFuncs)
            W[k \in 0..n] == IF k = 0 THEN Zero ELSE QAdd(W[k - 1], r.rewardWeights[k])
            inUnit(q) == ~QLess(q, Zero) /\ ~QLess(One, q)
            value(k) == RewardFunc(r.rewardFuncs[k], scoring.parsed, scoring.groundTruth)
        IN  ((\A k \in 1..n : inUnit(value(k).reward)) /\ QLess(Zero, W[n])) =>
                inUnit(scoring.out.score)

\* C18 as stated: the base aggregator evaluates its reward functions in order;
\* the first error is returned with score 0 and no later function is
\* evaluated; with no functions or with weights that sum to zero the result is
\* 0 without error; otherwise it is the sum of reward_i * weight_i divided by
\* the sum of weight_i.
C18_BaseAggregate ==
    (scoring.pc = "done" /\ scoring.rubric.type # "group") =>
        LET r == scoring.rubric
            n == Len(r.rewardFuncs)
            gt == IF r.type = "math" THEN ExtractBoxedAnswer(scoring.groundTruth)
                  ELSE scoring.groundTruth
            res == [k \in 1..n |-> RewardFunc(r.rewardFuncs[k], scoring.parsed, gt)]
            bad == {k \in 1..n : res[k].err # <<>>}
            first == CHOOSE k \in bad : \A j \in bad : k <= j
            T[k \in 0..n] ==
                IF k = 0 THEN <<Zero, Zero>>
                ELSE <<QAdd(T[k - 1][1], QMul(res[k].reward, r.rewardWeights[k])),
                       QAdd(T[k - 1][2], r.rewardWeights[k])>>
        IN  IF bad # {}
            THEN scoring.out = [err |-> res[first].err, score |-> Zero, calls |-> first]
            ELSE /\ scoring.out.err = <<>>
                 /\ scoring.out.calls = n
                 /\ IF n = 0 \/ T[n][2] = Zero THEN scoring.out.score = Zero
                    ELSE scoring.out.score = QDiv(T[n][1], T[n][2])

\* C18 as amended: the result is also 0 without error when the weights sum to
\* less than zero.
C18_BaseAggregateAmended ==
    (scoring.pc = "done" /\ scoring.rubric.type # "group") =>
        LET r == scoring.rubric
            n == Len(r.rewardFuncs)
            gt == IF r.type = "math" THEN ExtractBoxedAnswer(scoring.groundTruth)
                  ELSE scoring.groundTruth
            res == [k \in 1..n |-> RewardFunc(r.rewardFuncs[k], scoring.parsed, gt)]
            bad == {k \in 1..n : res[k].err # <<>>}
            first == CHOOSE k \in bad : \A j \in bad : k <= j
            T[k \in 0..n] ==
                IF k = 0 THEN <<Zero, Zero>>
                ELSE <<QAdd(T[k - 1][1], QMul(res[k].reward, r.rewardWeights[k])),
                       QAdd(T[k - 1][2], r.rewardWeights[k])>>
        IN  IF bad # {}
            THEN scoring.out = [err |-> res[first].err, score |-> Zero, calls |-> first]
            ELSE /\ scoring.out.err = <<>>
                 /\ scoring.out.calls = n
                 /\ IF n = 0 \/ ~QLess(Zero, T[n][2]) THEN scoring.out.score = Zero
                    ELSE scoring.out.score = QDiv(T[n][1], T[n][2])

\* the second of three functions failed: its error is returned and the third,
\* which would have failed differently, was not evaluated
C18_Witness ==
    /\ scoring.pc = "done"
    /\ scoring.rubric.type = "multi"
    /\ Len(scoring.rubric.rewardFuncs) = 3
    /\ scoring.rubric.rewardFuncs[3] = Metric([err |-> <<"metric b failed">>, reward |-> Zero])
    /\ scoring.out = [err |-> <<"metric a failed">>, score |-> Zero, calls |-> 2]

\* C19 as stated: a rubric group never returns an error; with W_m the sum of
\* member m's own weights, the result is the sum of score_m * W_m over the
\* members that succeeded divided by the sum of their W_m, and 0 when every
\* member fails.
C19_GroupAggregate ==
    (scoring.pc = "done" /\ scoring.rubric.type = "group") =>
        LET ms == scoring.rubric.rubrics
            res == [k \in 1..Len(ms) |->
                       ComputeReward(ms[k], scoring.parsed, scoring.groundTruth)]
            W(ws) == LET S[k \in 0..Len(ws)] ==
                             IF k = 0 THEN Zero ELSE QAdd(S[k - 1], ws[k])
                     IN  S[Len(ws)]
            T[k \in 0..Len(ms)] ==
                IF k = 0 THEN <<Zero, Zero>>
                ELSE IF res[k].err # <<>> THEN T[k - 1]
                ELSE <<QAdd(T[k - 1][1], QMul(res[k].score, W(ms[k].rewardWeights))),
                       QAdd(T[k - 1][2], W(ms[k].rewardWeights))>>
        IN  /\ scoring.out.err = <<>>
            /\ IF \A k \in 1..Len(ms) : res[k].err # <<>>
               THEN scoring.out.score = Zero
               ELSE scoring.out.score = QDiv(T[Len(ms)][1], T[Len(ms)][2])

\* C19 as amended: W_m is 1 for a member that has no weights at all, and the
\* result is also 0 when the W_m of the members that succeeded do not sum to
\* more than zero.
C19_GroupAggregateAmended ==
    (scoring.pc = "done" /\ scoring.rubric.type = "group") =>
        LET ms == scoring.rubric.rubrics
            res == [k \in 1..Len(ms) |->
                       ComputeReward(ms[k], scoring.parsed, scoring.groundTruth)]
            W(ws) == LET S[k \in 0..Len(ws)] ==
                             IF k = 0 THEN Zero ELSE QAdd(S[k - 1], ws[k])
                     IN  IF Len(ws) = 0 THEN One ELSE S[Len(ws)]
            T[k \in 0..Len(ms)] ==
                IF k = 0 THEN <<Zero, Zero>>
                ELSE IF res[k].err # <<>> THEN T[k - 1]
                ELSE <<QAdd(T[k - 1][1], QMul(res[k].score, W(ms[k].rewardWeights))),
                       QAdd(T[k - 1][2], W(ms[k].rewardWeights))>>
        IN  /\ scoring.out.err = <<>>
            /\ IF (\A k \in 1..Len(ms) : res[k].err # <<>>) \/ ~QLess(Zero, T[Len(ms)][2])
               THEN scoring.out.score = Zero
               ELSE scoring.out.score = QDiv(T[Len(ms)][1], T[Len(ms)][2])

\* a group of a member that fails and a member that scores 1: the result is 1
C19_Witness ==
    /\ scoring.pc = "done"
    /\ scoring.rubric.type = "group"
    /\ Len(scoring.rubric.rubrics) = 2
    /\ scoring.rubric.rubrics[1] =
          AddMetric(NewMultiMetricRubric,
                    Metric([err |-> <<"metric a failed">>, reward |-> Zero]), One)
    /\ scoring.rubric.rubrics[2] = NewMultiMetricRubric
    /\ scoring.parsed = <<"4">>
    /\ scoring.out = [err |-> <<>>, score |-> One]

\* C20: the math rubric scores 0.8 * correct_answer + 0.2 * format, a response
\* with a think field and an answer field whose content equals the ground
\* truth scores 1.0, and correct_answer (0.8) and format (0.2) are its only
\* reward functions.
C20_MathRubricTwoMetrics ==
    (scoring.pc = "done" /\ scoring.rubric.type = "math") =>
        LET r == scoring.rubric
            gt == ExtractBoxedAnswer(scoring.groundTruth)
            x == ParseXML(NewXMLParser(<<<<"think">>, <<"answer">>>>, "answer"),
                          scoring.parsed)
            value(name) ==
                LET k == CHOOSE j \in 1..Len(r.rewardFuncs) : r.rewardFuncs[j].name = name
                IN  RewardFunc(r.rewardFuncs[k], scoring.parsed, gt).reward
        IN  /\ scoring.out.err = <<>>
            /\ scoring.out.score = QAdd(QMul(Q(8, 10), value("math_correct")),
                                        QMul(Q(2, 10), value("math_format")))
            /\ (/\ x.err = <<>>
                /\ Field(x.Fields, "think") # <<>>
                /\ TrimSpace(Field(x.Fields, "answer")) = TrimSpace(gt)
                /\ gt # <<>>) => scoring.out.score = One
            /\ Len(r.rewardFuncs) = 2
            /\ r.rewardWeights = <<Q(8, 10), Q(2, 10)>>

\* C21: with a code-execution history of total > 0 entries of which s
\* succeeded, ComputeRewardWithState returns 0.7 * correct_answer + 0.3 * s/total,
\* whatever the heuristic code_execution function returns; with an empty or
\* missing history it returns what ComputeReward returns.
C21_StateReplacesExecution ==
    scoring.pc = "done with state" =>
        LET r == scoring.rubric
            h == Field(scoring.state, "code_executions")
            s == Cardinality({k \in 1..Len(h) : h[k].success})
            correct == RewardFunc(r.rewardFuncs[1], scoring.parsed,
                                  ExtractBoxedAnswer(scoring.groundTruth)).reward
            Same(base) == scoring.out = [err |-> base.err, score |-> base.score]
        IN  /\ r.rewardFuncs[1].name = "math_correct"
            /\ scoring.out.err = <<>>
            /\ IF Len(h) > 0
               THEN scoring.out.score = QAdd(QMul(Q(7, 10), correct),
                                             QMul(Q(3, 10), Q(s, Len(h))))
               ELSE Same(ComputeReward(r, scoring.parsed, scoring.groundTruth))

\* C22: whatever the last assistant message holds, the EnvResponse of a tool
\* environment ends in a user message wrapped in <result> and </result>, with
\* no error and the state unchanged, and the rollout goes on: a missing tool
\* field, malformed JSON, a missing name, an unknown tool and a failing tool
\* execution each show as explanatory text inside the result.
C22_ToolErrorsBecomeText ==
    [][(pc = "respond" /\ env.kind = "tool") =>
          LET asked == workingMessages[Len(workingMessages)].Content
              m == workingMessages'[Len(workingMessages')]
              has(c, tok) == \E k \in 1..Len(c) : c[k] = tok
              says(tok) == has(m.Content, tok)
          IN  /\ pc' = "loop"
              /\ ret' = ret
              /\ state' = state
              /\ workingMessages' = Append(workingMessages, m)
              /\ m.Role = "user"
              /\ Len(m.Content) >= 5
              /\ SubSeq(m.Content, 1, 2) = <<"<result>", "\n">>
              /\ SubSeq(m.Content, Len(m.Content) - 1, Len(m.Content)) = <<"\n", "</result>">>
              /\ ~has(asked, "<tool>") =>
                    \/ says("No tool call found. Use <tool>{json}</tool> to call a tool.")
                    \/ says("Failed to parse response. Please use the correct XML format.")
              /\ has(asked, JBad) => says("Error:") /\ says(" invalid JSON")
              /\ has(asked, JNoName) =>
                    says("Error:") /\ says(" tool call must specify 'name'")
              /\ has(asked, JUnknown) => says("Error:") /\ says(" Unknown tool '")
              /\ has(asked, JNoArgs) =>
                    says("Error:") /\ says(" missing required argument 'expression'")
              /\ has(asked, JCalc) => m.Content = <<"<result>", "\n", "4", "\n", "</result>">>
    ]_vars

\* a tool environment has answered a tool call with malformed JSON and the
\* rollout is back at the head of its loop
C22_Witness ==
    /\ env.kind = "tool" /\ pc = "loop" /\ Len(workingMessages) >= 2
    /\ workingMessages[Len(workingMessages) - 1] = Msg("assistant", Text.badtool)
    /\ workingMessages[Len(workingMessages)].Role = "user"
    /\ workingMessages[Len(workingMessages)].Content[4] = " invalid JSON"

\* C23: whatever the tool field holds, the EnvResponse of a Smola tool
\* environment does not crash or abort the rollout: it appends a <result>
\* message, and for a tool field that is not empty it appends exactly one entry
\* to tool_executions, with success false when the JSON did not decode or the
\* result starts with "Error:".
C23_SmolaNeverCrashes ==
    [][(pc = "respond" /\ env.kind = "smola") =>
          LET asked == workingMessages[Len(workingMessages)].Content
              m == workingMessages'[Len(workingMessages')]
              has(c, tok) == \E k \in 1..Len(c) : c[k] = tok
              before == state.tool_executions
              after == state'.tool_executions
          IN  /\ pc' = "loop"
              /\ ret' = ret
              /\ workingMessages' = Append(workingMessages, m)
              /\ m.Role = "user"
              /\ m.Content[1] = "<result>"
              /\ m.Content[Len(m.Content)] = "</result>"
              /\ IF has(asked, "<tool>")
                 THEN /\ Len(after) = Len(before) + 1
                      /\ SubSeq(after, 1, Len(before)) = before
                      /\ (has(asked, JBad) \/ has(m.Content, "Error:")) =>
                            ~after[Len(after)].Success
                 ELSE after = before
    ]_vars

\* C24: a ground truth without a colon is routed to the first registered
\* environment, the same one for every group built from the same registered
\* environments: with math and chat registered in that order, to math.
C24_DefaultRouteDeterministic ==
    (/\ req.target = "group" /\ pc # "group"
     /\ \A i \in 1..Len(req.answer) : req.answer[i] # ":"
     /\ DOMAIN group.envs = {<<"math">>, <<"chat">>}) =>
        /\ delegated = <<[task |-> <<"math">>, answer |-> req.answer]>>
        /\ env = group.envs[<<"math">>]

\* C25: for a ground truth with a task prefix, a reward function that
\* GetRewardFuncs of an environment group returns gives 0 without error when
\* the prefix names another environment than its owner; otherwise it gives what
\* the owner's function gives for the ground truth without the prefix.  So only
\* functions of the named environment return anything but 0.
C25_WrappedRewardFuncs ==
    scoring.pc = "done funcs" =>
        LET g == scoring.rubric
            gt == scoring.groundTruth
            colons == {i \in 1..Len(gt) : gt[i] = ":"}
            first == CHOOSE i \in colons : \A j \in colons : i <= j
            task == SubSeq(gt, 1, first - 1)
            rest == SubSeq(gt, first + 1, Len(gt))
            \* the functions of the environments, owner by owner
            owned == [i \in 1..Len(g.envNames) |-> g.envs[g.envNames[i]].rubric.rewardFuncs]
            at(i, j) == IF i = 1 THEN j ELSE Len(owned[1]) + j
        IN  /\ Len(g.envNames) = 2
            /\ Len(scoring.out) = Len(owned[1]) + Len(owned[2])
            /\ \A i \in 1..2 : \A j \in 1..Len(owned[i]) :
                  /\ scoring.out[at(i, j)].envName = g.envNames[i]
                  /\ colons # {} =>
                        scoring.out[at(i, j)].returns =
                            IF task # g.envNames[i] THEN Reward(Zero)
                            ELSE RewardFunc(owned[i][j], scoring.parsed, rest)
            /\ colons # {} =>
                  \A k \in 1..Len(scoring.out) :
                      scoring.out[k].returns.reward # Zero => scoring.out[k].envName = task

\* for "math:4" and the text "4" the exact match of the math environment
\* returns 1 and the exact match of the chat environment, which would match
\* "4" as well, returns 0
C25_Witness ==
    /\ scoring.pc = "done funcs"
    /\ scoring.groundTruth = <<"math", ":", "4">>
    /\ scoring.parsed = <<"4">>
    /\ scoring.rubric.envNames = <<<<"chat">>, <<"math">>>>
    /\ scoring.out[1] = [envName |-> <<"chat">>, returns |-> Reward(Zero)]
    /\ scoring.out[2] = [envName |-> <<"math">>, returns |-> Reward(One)]

\* C26: XMLParser.Parse returns, with no error, the trimmed content of the first
\* block <a>...</a> of the text, a being the configured answer-field name, and
\* the empty string when the text has no such block, whatever other declared
\* names have blocks; each name that has a block is stored under itself.
C26_ParseAnswerBlock ==
    (scoring.pc = "parsed" /\ scoring.type = "xml") =>
        LET t == scoring.text
            Block(a) ==
                LET starts == {i \in 1..Len(t) :
                                  /\ t[i] = "<" \o a \o ">"
                                  /\ \E j \in (i + 1)..Len(t) : t[j] = "</" \o a \o ">"}
                    i == CHOOSE x \in starts : \A y \in starts : x <= y
                    ends == {j \in (i + 1)..Len(t) : t[j] = "</" \o a \o ">"}
                    j == CHOOSE x \in ends : \A y \in ends : x <= y
                IN  IF starts = {} THEN [found |-> FALSE, content |-> <<>>]
                    ELSE [found |-> TRUE, content |-> TrimSpace(SubSeq(t, i + 1, j - 1))]
        IN  /\ scoring.answer.err = <<>>
            /\ scoring.answer.value = Block(scoring.parser.answerField).content
            /\ scoring.parsed.err = <<>>
            /\ \A k \in 1..Len(scoring.parser.fields) :
                   \A a \in 1..Len(scoring.parser.fields[k]) :
                      LET n == scoring.parser.fields[k][a]
                      IN  IF Block(n).found
                          THEN /\ n \in DOMAIN scoring.parsed.Fields
                               /\ scoring.parsed.Fields[n] = Block(n).content
                          ELSE n \notin DOMAIN scoring.parsed.Fields

\* C27: NewXMLParser and NewSmolaParser return an error and no parser exactly for
\* a declaration list with an empty alternative list, a declaration that is
\* neither a name nor a list, or a repeated canonical name; and Parse of a
\* constructed parser returns no error.
C27_DeclarationsCheckedAtConstruction ==
    LET d == scoring.decls
        malformed == \E k \in 1..Len(d) :
                        \/ d[k].kind = "list" /\ d[k].names = <<>>
                        \/ d[k].kind = "other"
                        \/ \E j \in 1..(k - 1) :
                              /\ d[j].names # <<>> /\ d[k].names # <<>>
                              /\ d[j].names[1] = d[k].names[1]
    IN  /\ scoring.pc = "rejected" =>
              malformed /\ scoring.err # <<>> /\ scoring.parser = NilParser
        /\ scoring.pc = "built" => ~malformed /\ scoring.err = <<>>
        /\ scoring.pc \in {"parsed", "parsed back"} =>
              scoring.answer.err = <<>> /\ scoring.parsed.err = <<>>

\* C28: XMLParser.Format renders the declared fields in declared order, each as
\* <canonical>, newline, value, newline, </canonical>, joined by newlines, the
\* value being the one supplied under the canonical name or else under the first
\* alternative that has one; when a field has no value under any name, Format
\* returns an error and the empty string.
C28_FormatRendersCanonical ==
    scoring.pc = "formatted" =>
        LET fs == scoring.parser.fields
            given == DOMAIN scoring.values
            value(k) ==
                IF fs[k][1] \in given THEN scoring.values[fs[k][1]]
                ELSE scoring.values[fs[k][CHOOSE a \in 1..Len(fs[k]) :
                                             /\ fs[k][a] \in given
                                             /\ \A b \in 1..(a - 1) : fs[k][b] \notin given]]
            Lines[k \in 0..Len(fs)] ==
                IF k = 0 THEN <<>>
                ELSE Lines[k - 1] \o (IF k > 1 THEN <<"\n">> ELSE <<>>)
                     \o <<"<" \o fs[k][1] \o ">", "\n">> \o value(k)
                     \o <<"\n", "</" \o fs[k][1] \o ">">>
        IN  IF \A k \in 1..Len(fs) : \E a \in 1..Len(fs[k]) : fs[k][a] \in given
            THEN scoring.formatted = [err |-> <<>>, text |-> Lines[Len(fs)]]
            ELSE scoring.formatted.err # <<>> /\ scoring.formatted.text = <<>>

\* Format has written a value that was supplied under an alternative name only
C28_Witness ==
    /\ scoring.pc = "formatted"
    /\ scoring.parser.fields = <<<<"think">>, <<"tool", "answer">>>>
    /\ DOMAIN scoring.values = {"think", "answer"}
    /\ scoring.formatted.err = <<>>
    /\ scoring.formatted.text = <<"<think>", "\n", "4", "\n", "</think>", "\n",
                                  "<tool>", "\n", " ", "5", "\n", "\n", "</tool>">>

\* C29: for an XML parser whose answer field is one of its declared names and a
\* value map that Format accepts, ParseXML of the formatted text yields every
\* declared field with its trimmed value, and Parse of the formatted text
\* returns the trimmed value supplied for the answer field.
C29_FormatParseRoundTrip ==
    (/\ scoring.pc = "parsed back"
     /\ \E k \in 1..Len(scoring.parser.fields) :
           \E a \in 1..Len(scoring.parser.fields[k]) :
              scoring.parser.fields[k][a] = scoring.parser.answerField) =>
        LET fs == scoring.parser.fields
            given == DOMAIN scoring.values
            supplied(k) ==
                IF fs[k][1] \in given THEN scoring.values[fs[k][1]]
                ELSE scoring.values[fs[k][CHOOSE a \in 1..Len(fs[k]) :
                                             /\ fs[k][a] \in given
                                             /\ \A b \in 1..(a - 1) : fs[k][b] \notin given]]
        IN  /\ scoring.parsed.err = <<>>
            /\ scoring.answer.err = <<>>
            /\ \A k \in 1..Len(fs) :
                   /\ fs[k][1] \in DOMAIN scoring.parsed.Fields
                   /\ scoring.parsed.Fields[fs[k][1]] = TrimSpace(supplied(k))
            /\ \E k \in 1..Len(fs) :
                   /\ \E a \in 1..Len(fs[k]) : fs[k][a] = scoring.parser.answerField
                   /\ scoring.answer.value = TrimSpace(supplied(k))

\* C30: CompareMathAnswers gives the same result for two answers in either
\* order; it holds for "1,000.0" and "1000" and does not hold for "abc" and
\* "abd".
C30_CompareSymmetric ==
    scoring.pc = "compared" =>
        /\ scoring.out = scoring.swapped
        /\ (/\ scoring.answer1 = <<"1", ",", "0", "0", "0", ".", "0">>
            /\ scoring.answer2 = <<"1", "0", "0", "0">>) => scoring.out
        /\ (scoring.answer1 = <<"abc">> /\ scoring.answer2 = <<"abd">>) => ~scoring.out

\* the comparison of "1,000.0" with "1000" has returned, in both orders
C30_Witness ==
    /\ scoring.pc = "compared"
    /\ scoring.answer1 = <<"1", ",", "0", "0", "0", ".", "0">>
    /\ scoring.answer2 = <<"1", "0", "0", "0">>
    /\ scoring.out
    /\ scoring.swapped

\* C31: the Rollout that SingleTurnEnv.Rollout returns in chat mode has as
\* Messages the messages passed in, in their order, followed by one assistant
\* message whose content is the response (three messages for a system and a
\* user message); in completion mode it has no messages.
C31_SingleTurnTranscript ==
    (env.kind = "single" /\ pc = "done" /\ ret.kind = "rollout") =>
        IF env.messageType = "chat"
        THEN /\ Len(ret.Messages) = Len(req.prompt.messages) + 1
             /\ SubSeq(ret.Messages, 1, Len(req.prompt.messages)) = req.prompt.messages
             /\ ret.Messages[Len(ret.Messages)] =
                   [Role |-> "assistant", Content |-> clientCalls[1].text]
             /\ ret.Response = clientCalls[1].text
        ELSE ret.Messages = <<>> /\ ret.Response = clientCalls[1].text

\* a chat rollout for a system and a user message has returned three messages
C31_Witness ==
    /\ env.kind = "single" /\ pc = "done" /\ ret.kind = "rollout"
    /\ env.messageType = "chat"
    /\ Len(req.prompt.messages) = 2
    /\ req.prompt.messages[1].Role = "system"
    /\ Len(ret.Messages) = 3
    /\ ret.Messages[3] = [Role |-> "assistant", Content |-> Text.ans4]

\* C32: FormatPrompt returns the system message (only when the system prompt is
\* not empty), then the few-shot messages in their configured order, then one
\* user message carrying the prompt, as the last element; with a system prompt
\* and k few-shot messages that is k + 2 messages.
C32_FormatPromptOrder ==
    scoring.pc = "prompt formatted" =>
        LET e == scoring.env
            out == scoring.out
            sys == IF e.systemPrompt # <<>> THEN 1 ELSE 0
        IN  /\ Len(out) = sys + Len(e.fewShot) + 1
            /\ sys = 1 => out[1] = [Role |-> "system", Content |-> e.systemPrompt]
            /\ \A k \in 1..Len(e.fewShot) : out[sys + k] = e.fewShot[k]
            /\ out[Len(out)] = [Role |-> "user", Content |-> scoring.prompt]

\* a prompt formatted with a system prompt and two few-shot messages
C32_Witness ==
    /\ scoring.pc = "prompt formatted"
    /\ scoring.env.systemPrompt = <<"Be brief">>
    /\ scoring.env.fewShot = <<Msg("user", <<"1+1", "?">>), Msg("assistant", Text.ans5)>>
    /\ Len(scoring.out) = 4
    /\ scoring.out[4] = [Role |-> "user", Content |-> <<"2+2", "?">>]

\* C33: two rollouts that run concurrently on one environment with the same
\* prompt slice do not interfere: the transcript each returns is the prompt
\* followed only by its own assistant message and the environment's messages,
\* and holds no assistant message of the other rollout.
C33_RolloutsDoNotInterfere ==
    shared.kind # "none" =>
        \A r \in 1..2 :
            LET t == shared.th[r]
                transcript == IF t.where = "prompt" THEN SubSeq(shared.array, 1, t.n)
                              ELSE t.own
            IN  t.pc = "done" =>
                   /\ Len(transcript) >= 2
                   /\ transcript[1] = Msg("user", <<"2+2", "?">>)
                   /\ transcript[2] = Msg("assistant", t.text)
                   /\ \A i \in 2..Len(transcript) :
                          transcript[i].Role = "assistant" =>
                              transcript[i].Content = t.text

\* C34: every read a rollout makes of the environment's parser and rubric is
\* excluded by the lock SetParser and SetRubric hold while they write, so the
\* value a rollout calls is the value it saw at its nil check.
C34_SettersGuarded ==
    shared.kind # "none" =>
        \A r \in 1..2 :
            LET t == shared.th[r]
            IN  /\ ~t.duringWrite
                /\ (t.seen.type # "nil"
                    /\ t.pc \in {"check rubric", "score", "append", "done", "panic"}) =>
                       t.used = t.seen
                /\ (t.seenRubric.type # "nil" /\ t.pc \in {"append", "done", "panic"}) =>
                       t.usedRubric = t.seenRubric

\* C35: in the Rollout that BaseMultiTurnRollout returns, Messages is the prompt
\* followed by messages that alternate assistant message, environment message,
\* beginning with an assistant message (the k-th model response and the reply to
\* it); there are as many environment messages as assistant messages or one
\* less; Response is the content of the last assistant message added, empty
\* when no model call was made; Score is 0.0.
C35_MultiTurnTranscript ==
    pc = "score" =>
        LET n == Len(completion)
            assistants == {i \in 1..n : i % 2 = 1}
            replies == {i \in 1..n : i % 2 = 0}
        IN  /\ ret.kind = "rollout"
            /\ ret.Messages = req.prompt.messages \o completion
            /\ Len(clientCalls) = Cardinality(assistants)
            /\ hookCalls = Cardinality(replies)
            /\ \A i \in assistants :
                   completion[i] = [Role |-> "assistant",
                                    Content |-> clientCalls[(i + 1) \div 2].text]
            /\ Cardinality(replies) \in {Cardinality(assistants),
                                         Cardinality(assistants) - 1}
            /\ ret.Response = IF n = 0 THEN <<>>
                              ELSE clientCalls[Len(clientCalls)].text
            /\ ret.Score = Zero

\* the loop has returned after two model calls with different texts and one
\* environment message between them
C35_Witness ==
    /\ pc = "score"
    /\ Len(completion) = 3
    /\ completion[1].Role = "assistant" /\ completion[3].Role = "assistant"
    /\ completion[2].Role = "user"
    /\ completion[1].Content # completion[3].Content
    /\ ret.Response = completion[3].Content

\* C36: when every processor invocation returns, Process and ProcessWithProgress
\* return, cancelled or not, for every concurrency limit of at least one; at the
\* return every worker has ended, having run its item or observed the
\* cancellation and written its slot of results, and every semaphore slot that
\* was acquired has been released.
C36_ProcessReturns ==
    /\ <>returned
    /\ [](returned =>
            /\ sem = 0
            /\ batch.maxConcurrent >= 1
            /\ \A i \in 1..Len(batch.items) :
                   /\ wpc[i] = "done"
                   /\ results[i].Index = i - 1
                   /\ \/ produced[i] # <<>> /\ results[i].Error = produced[i][1].Error
                      \/ produced[i] = <<>> /\ results[i].Error = <<"context canceled">>)

\* a call on more items than the limit admits at once has returned without a
\* cancellation
C36_Witness ==
    /\ returned
    /\ ~cancelled
    /\ batch.method = "ProcessWithProgress"
    /\ Len(batch.items) = MaxItems
    /\ batch.maxConcurrent = 1
    /\ \A i \in 1..Len(batch.items) : produced[i] # <<>>

\* C37: a Dialog rollout whose prompt does not contain the completion keyword
\* ends with fewer than max_turns model calls only if a model response contained
\* the keyword or began with "[ERROR]"; otherwise the model is queried max_turns
\* times and every response but the last is followed by the nudge message.
C37_DialogRunsToLimit ==
    (/\ env.kind = "dialog"
     /\ pc = "score"
     /\ \A i \in 1..Len(req.prompt.messages) :
           ~Contains(req.prompt.messages[i].Content, env.CompletionKeyword)) =>
        LET limit == IF env.MaxTurns <= 0 THEN 10 ELSE env.MaxTurns
            stopped == \E k \in 1..Len(clientCalls) :
                          \/ Contains(clientCalls[k].text, env.CompletionKeyword)
                          \/ HasPrefix(clientCalls[k].text, <<"[ERROR]">>)
        IN  IF stopped THEN Len(clientCalls) <= limit
            ELSE /\ Len(clientCalls) = limit
                 /\ Len(completion) = 2 * limit - 1
                 /\ \A i \in 1..Len(completion) :
                        i % 2 = 0 => completion[i].Role = "user"

\* C38: in the tool, SmolaAgents and code-math environments completion depends
\* only on assistant messages produced during the rollout: whatever the prompt
\* holds (few-shot assistant messages with an answer field too), a rollout whose
\* loop returns has made at least one model call and has a Response that is
\* not empty.
C38_FewShotDoesNotComplete ==
    (env.kind \in {"tool", "smola", "codemath"} /\ pc = "score") =>
        /\ Len(clientCalls) >= 1
        /\ ret.Response # <<>>

\* C39 as stated: a rubric group in concatenation mode is one flat rubric.
\* When every member is a base weighted-average rubric whose weights sum to
\* more than zero and no reward function fails, GetRewardFuncs and
\* GetRewardWeights list the members' functions and weights in member order,
\* the two lists have the same length, and ComputeReward of the group returns
\* the float64 that the base weighted average returns over these two lists.
C39_ConcatenationIsFlat ==
    LET g == scoring.rubric
        ms == g.rubrics
        Sum(ws) == LET S[k \in 0..Len(ws)] ==
                           IF k = 0 THEN Zero ELSE QAdd(S[k - 1], ws[k])
                   IN  S[Len(ws)]
        fails(m) == \E k \in 1..Len(m.rewardFuncs) :
                       RewardFunc(m.rewardFuncs[k], scoring.parsed,
                                  scoring.groundTruth).err # <<>>
        flat == [type |-> "base", rewardFuncs |-> scoring.out.funcs,
                 rewardWeights |-> scoring.out.weights]
    IN  (/\ scoring.pc = "done group"
         /\ ~g.mergeWeights
         /\ \A k \in 1..Len(ms) : /\ ms[k].type \in {"base", "multi"}
                                  /\ QLess(Zero, Sum(ms[k].rewardWeights))
                                  /\ ~fails(ms[k]))
        => /\ Len(scoring.out.funcs) = Len(scoring.out.weights)
           /\ scoring.out.funcs = Concatenated(ms, "rewardFuncs")
           /\ scoring.out.weights = Concatenated(ms, "rewardWeights")
           /\ scoring.out.reward.err = <<>>
           /\ LET base == BaseComputeReward(flat, scoring.parsed, scoring.groundTruth)
              IN  base.err = <<>> /\ scoring.out.reward.score = base.score

\* C39 as amended: the lists are as stated, and ComputeReward of the group
\* returns, with no error, the two-level average over these two lists: each
\* member's part of the lists gives the member's weighted sum, weight sum and
\* their quotient (the member's score), and the result is the sum of score
\* times weight sum over the members divided by the sum of the weight sums,
\* 0 for a group without members.  Every operation is that of float64, so
\* the result need not be the float64 of the one-level average.
C39_ConcatenationIsFlatAmended ==
    LET g == scoring.rubric
        ms == g.rubrics
        fs == Concatenated(ms, "rewardFuncs")
        ws == Concatenated(ms, "rewardWeights")
        rew == [i \in 1..Len(fs) |->
                   RewardFunc(fs[i], scoring.parsed, scoring.groundTruth)]
        first[k \in 1..(Len(ms) + 1)] ==
            IF k = 1 THEN 1 ELSE first[k - 1] + Len(ms[k - 1].rewardFuncs)
        \* <<weighted sum, weight sum>> of the positions lo..hi of the lists
        sums(lo, hi) ==
            LET T[i \in (lo - 1)..hi] ==
                    IF i = lo - 1 THEN <<Zero, Zero>>
                    ELSE <<QAdd(T[i - 1][1], QMul(rew[i].reward, ws[i])),
                           QAdd(T[i - 1][2], ws[i])>>
            IN  T[hi]
        part == [k \in 1..Len(ms) |-> sums(first[k], first[k + 1] - 1)]
        G[k \in 0..Len(ms)] ==
            IF k = 0 THEN <<Zero, Zero>>
            ELSE <<QAdd(G[k - 1][1], QMul(QDiv(part[k][1], part[k][2]), part[k][2])),
                   QAdd(G[k - 1][2], part[k][2])>>
    IN  (/\ scoring.pc = "done group"
         /\ ~g.mergeWeights
         /\ \A k \in 1..Len(ms) : /\ ms[k].type \in {"base", "multi"}
                                  /\ QLess(Zero, part[k][2])
                                  /\ \A i \in first[k]..(first[k + 1] - 1) :
                                         rew[i].err = <<>>)
        => /\ Len(scoring.out.funcs) = Len(scoring.out.weights)
           /\ scoring.out.funcs = fs
           /\ scoring.out.weights = ws
           /\ scoring.out.reward.err = <<>>
           /\ scoring.out.reward.score =
                  IF Len(ms) = 0 THEN Zero ELSE QDiv(G[Len(ms)][1], G[Len(ms)][2])

\* a group of two members with the weights 1.0 and 0.7: exact match (reward 0
\* on "5") with a metric of 0 at weight 0.7, and exact match with a metric of
\* 0.5 at weight 0.7; the group returns 0.10294117647058823, one unit in the
\* last place above the weighted average of the four functions
C39_Witness ==
    /\ scoring.pc = "done group"
    /\ ~scoring.rubric.mergeWeights
    /\ scoring.parsed = <<"5">>
    /\ scoring.rubric.rubrics =
          <<AddMetric(NewMultiMetricRubric, Metric(Reward(Zero)), Q(7, 10)),
            AddMetric(NewMultiMetricRubric, Metric(Reward(Half)), Q(7, 10))>>
    /\ Len(scoring.out.funcs) = 4
    /\ scoring.out.weights = <<One, Q(7, 10), One, Q(7, 10)>>
    /\ scoring.out.reward.err = <<>>
    /\ FormatFloat(scoring.out.reward.score) = Chars(<<"0.10294117647058823">>)

\* C40: labelling and routing are inverse.  Every item of the dataset that
\* EnvGroup.GetDataset returns comes from an item of one registered environment:
\* it carries that environment's name as task, and name + ":" + the original
\* answer as answer, whatever colons the answer has.  Passing that answer to
\* EnvGroup.Rollout delegates to the environment of that name with the
\* original answer.
C40_LabelRouteInverse ==
    (req.target = "dataset" /\ pc # "dataset") =>
        LET origin(item) ==
                {o \in {group.envs[item["task"]].dataset.data[k] :
                           k \in 1..Len(group.envs[item["task"]].dataset.data)} :
                    o["question"] = item["question"]}
            labelled(item) ==
                /\ "task" \in DOMAIN item
                /\ item["task"] \in DOMAIN group.envs
                /\ origin(item) # {}
                /\ \A o \in origin(item) :
                      /\ DOMAIN item = DOMAIN o \cup {"task"}
                      /\ "answer" \in DOMAIN o =>
                            item["answer"] = item["task"] \o <<":">> \o o["answer"]
        IN  /\ \A i \in 1..Len(req.dataset.data) : labelled(req.dataset.data[i])
            /\ pc \notin {"group", "no item"} =>
                  \A o \in origin(req.item) :
                     /\ delegated = <<[task |-> req.item["task"], answer |-> o["answer"]]>>
                     /\ env = group.envs[req.item["task"]]
                     /\ answer = o["answer"]

\* the item with the answer "1:2" of the environment "chat" came back as
\* "chat:1:2" and reached that environment with the answer "1:2"
C40_PlainNameRouted ==
    /\ req.target = "dataset" /\ pc = "done"
    /\ req.item["task"] = <<"chat">>
    /\ req.item["answer"] = <<"chat", ":", "1", ":", "2">>
    /\ delegated = <<[task |-> <<"chat">>, answer |-> <<"1", ":", "2">>]>>
    /\ ret.kind = "rollout"


====
